---- MODULE Spec2Model ----
(***************************************************************************)
(* Financial-Automation: the extraction and consolidation pipeline.        *)
(*                                                                         *)
(* The module models, from the Python sources,                             *)
(*   - EnhancedFinancialNormalizer (enhanced_data_extraction.py),          *)
(*   - TargetedPatternMatcher.extract_with_patterns and its helpers,       *)
(*   - FinancialDataExtractor.extract_data (data_extraction.py),           *)
(*   - EnhancedConsolidationEngine,                                        *)
(*   - EnhancedAutomationEngine._enhanced_yfinance_integration.            *)
(*                                                                         *)
(* Python strings are TLA+ strings; characters are read with SubSeq.       *)
(* Amounts are decimal numbers  m * 10^e  (with a sign), so that a value   *)
(* of several trillions is still within the integers of the checker.       *)
(***************************************************************************)
EXTENDS Integers, Sequences, FiniteSets, TLC

VARIABLES
    value,          \* normalizer: the raw value of the last call
    context,        \* normalizer: the context of the last call
    result,         \* normalizer: what the last call returned
    op,             \* normalizer: which function the last call was
    all_extracted_data, \* consolidation: the candidates collected so far
    consolidated,       \* consolidation: the consolidated field map
    processed_files,    \* consolidation: the documents extracted so far
    consPc,             \* consolidation: "collect" or "done"
    attempts,           \* consolidation: what the document loop did, in order
    processing_stats,   \* engine: self.processing_stats, one dict per engine
    results,            \* engine: the results process_documents returned
    conf_args,      \* scorer: the arguments of the last call
    conf_result,    \* scorer: the confidence it returned, in hundredths
    consolidated_data,  \* enrichment: the map the merge is given
    yfinance_data,      \* enrichment: the outcome of the external lookup
    enhanced_data,      \* enrichment: the map the merge returns
    mergePc,            \* enrichment: "call" or "done"
    document,       \* extraction: the text and name of the document read
    returned_data,  \* extraction: the candidates the extractor returned
    ticker,         \* legacy engine: the stock_symbol derived, or passed on
    ordered_data,   \* legacy engine: consolidated_data, as its list of items
    source_folder,  \* legacy engine: the folder and template the run is given
    lookups,        \* legacy engine: the tickers looked up so far
    report,         \* legacy engine: the report written and returned
    runPc           \* legacy engine: "scan", "done" or "idle"

normVars == <<value, context, result, op>>
consVars == <<all_extracted_data, consolidated, processed_files, consPc, attempts,
              processing_stats, results>>
confVars == <<conf_args, conf_result>>
mergeVars == <<consolidated_data, yfinance_data, enhanced_data, mergePc>>
extractVars == <<document, returned_data>>
runVars == <<ticker, ordered_data, source_folder, lookups, report, runPc>>
vars == <<normVars, consVars, confVars, mergeVars, extractVars, runVars>>

(***************************************************************************)
(* Python's str methods.                                                   *)
(***************************************************************************)
Char(s, i) == SubSeq(s, i, i)

Digits == "0123456789"
UpperAlpha == "ABCDEFGHIJKLMNOPQRSTUVWXYZ"
LowerAlpha == "abcdefghijklmnopqrstuvwxyz"

IsIn(c, alphabet) == \E i \in 1..Len(alphabet) : Char(alphabet, i) = c
IndexIn(c, alphabet) == CHOOSE i \in 1..Len(alphabet) : Char(alphabet, i) = c

IsDigit(c) == IsIn(c, Digits)
IsUpper(c) == IsIn(c, UpperAlpha)
IsSpace(c) == c \in {" ", "\t", "\n"}

\* sub in s
Contains(s, sub) ==
    \E i \in 1..(Len(s) - Len(sub) + 1) : SubSeq(s, i, i + Len(sub) - 1) = sub

\* any(x in s for x in list)
AnyIn(list, s) == \E i \in 1..Len(list) : Contains(s, list[i])

StartsWith(s, c) == Len(s) >= 1 /\ Char(s, 1) = c
EndsWith(s, c) == Len(s) >= 1 /\ Char(s, Len(s)) = c

\* s.replace(c, "") for a one-character c
RECURSIVE RemoveChar(_, _)
RemoveChar(s, c) ==
    IF s = "" THEN ""
    ELSE (IF Char(s, 1) = c THEN "" ELSE Char(s, 1))
             \o RemoveChar(SubSeq(s, 2, Len(s)), c)

\* s.lower()
RECURSIVE Lower(_)
Lower(s) ==
    IF s = "" THEN ""
    ELSE (IF IsUpper(Char(s, 1))
              THEN Char(LowerAlpha, IndexIn(Char(s, 1), UpperAlpha))
              ELSE Char(s, 1))
             \o Lower(SubSeq(s, 2, Len(s)))

\* s.lstrip(chars), s.rstrip(chars), s.strip(chars): chars is a set
RECURSIVE Upper(_)
Upper(s) ==
    IF s = "" THEN ""
    ELSE (IF IsIn(Char(s, 1), LowerAlpha)
              THEN Char(UpperAlpha, IndexIn(Char(s, 1), LowerAlpha))
              ELSE Char(s, 1))
         \o Upper(SubSeq(s, 2, Len(s)))

RECURSIVE LStripSet(_, _)
LStripSet(s, chars) ==
    IF s # "" /\ Char(s, 1) \in chars
        THEN LStripSet(SubSeq(s, 2, Len(s)), chars)
        ELSE s

RECURSIVE RStripSet(_, _)
RStripSet(s, chars) ==
    IF s # "" /\ Char(s, Len(s)) \in chars
        THEN RStripSet(SubSeq(s, 1, Len(s) - 1), chars)
        ELSE s

StripSet(s, chars) == RStripSet(LStripSet(s, chars), chars)

Whitespace == {" ", "\t", "\n"}
Strip(s) == StripSet(s, Whitespace)

(***************************************************************************)
(* re.search(r'(\d+(?:\.\d+)?)', s): the first run of digits and, when a   *)
(* '.' and a digit follow it, the run of digits after the '.'.             *)
(***************************************************************************)
\* the last index of the run of digits that starts at i
RECURSIVE DigitRunEnd(_, _)
DigitRunEnd(s, i) ==
    IF i + 1 <= Len(s) /\ IsDigit(Char(s, i + 1))
        THEN DigitRunEnd(s, i + 1)
        ELSE i

HasNumber(s) == \E i \in 1..Len(s) : IsDigit(Char(s, i))

FirstDigit(s) ==
    CHOOSE i \in 1..Len(s) :
        /\ IsDigit(Char(s, i))
        /\ \A j \in 1..(i - 1) : ~IsDigit(Char(s, j))

\* [int |-> the digits before the point, frac |-> the digits after it]
NumberMatch(s) ==
    LET i == FirstDigit(s)
        j == DigitRunEnd(s, i)
        hasFrac == /\ j + 2 <= Len(s)
                   /\ Char(s, j + 1) = "."
                   /\ IsDigit(Char(s, j + 2))
    IN  [int  |-> SubSeq(s, i, j),
         frac |-> IF hasFrac
                      THEN SubSeq(s, j + 2, DigitRunEnd(s, j + 2))
                      ELSE ""]

\* the integer a string of digits writes
RECURSIVE DigitsToInt(_)
DigitsToInt(d) ==
    IF d = "" THEN 0
    ELSE 10 * DigitsToInt(SubSeq(d, 1, Len(d) - 1))
             + (IndexIn(Char(d, Len(d)), Digits) - 1)

\* float(number_str), as the decimal number m * 10^e
ToFloat(nm) ==
    [neg |-> FALSE,
     m   |-> DigitsToInt(nm.int \o nm.frac),
     e   |-> 0 - Len(nm.frac)]

(***************************************************************************)
(* Arithmetic on amounts  (-1)^neg * m * 10^e.                             *)
(***************************************************************************)
\* a * 10^k
Times10(a, k) == [a EXCEPT !.e = a.e + k]

Negate(a) == [a EXCEPT !.neg = ~a.neg]

\* abs(a) >= 10^k
AbsGE(a, k) ==
    IF a.m = 0 THEN FALSE
    ELSE IF a.e >= k THEN TRUE
    ELSE IF k - a.e > 9 THEN FALSE
    ELSE a.m >= 10^(k - a.e)

\* a >= 10^k
GE(a, k) == ~a.neg /\ AbsGE(a, k)

\* round(m / 10^d), ties to even
RoundDiv(m, d) ==
    IF d <= 0 THEN m * 10^(0 - d)
    ELSE IF d > 9 THEN 0
    ELSE LET q == m \div 10^d
             r == m % 10^d
         IN  IF 2 * r > 10^d THEN q + 1
             ELSE IF 2 * r < 10^d THEN q
             ELSE IF q % 2 = 0 THEN q ELSE q + 1

\* f"{x:.2f}" of x = a / 10^k
Fixed2(a, k) ==
    LET h == RoundDiv(a.m, k - a.e - 2)
        c == h % 100
    IN  (IF a.neg THEN "-" ELSE "")
            \o ToString(h \div 100) \o "."
            \o (IF c < 10 THEN "0" ELSE "") \o ToString(c)

\* f"{n:,}" of a natural number n below a million
Grouped(n) ==
    IF n < 1000 THEN ToString(n)
    ELSE LET low == n % 1000
         IN  ToString(n \div 1000) \o ","
                 \o (IF low < 10 THEN "00" ELSE IF low < 100 THEN "0" ELSE "")
                 \o ToString(low)

\* f"{x:,.0f}"
Fixed0(a) == (IF a.neg THEN "-" ELSE "") \o Grouped(RoundDiv(a.m, 0 - a.e))

(***************************************************************************)
(* EnhancedFinancialNormalizer.                                            *)
(* A result is Some(str) or None.                                          *)
(***************************************************************************)
None == [some |-> FALSE, str |-> ""]
Some(s) == [some |-> TRUE, str |-> s]

\* the exponent of the multiplier of the explicit scale indicators:
\* multiplier = 10^ExplicitScale
ExplicitScale(value_lower) ==
    IF AnyIn(<<"trillion", "trillions", "t">>, value_lower) THEN 12
    ELSE IF AnyIn(<<"billion", "billions", "b">>, value_lower) THEN 9
    ELSE IF AnyIn(<<"million", "millions", "m">>, value_lower) THEN 6
    ELSE IF AnyIn(<<"thousand", "thousands", "k">>, value_lower) THEN 3
    ELSE 0

\* the exponent of the multiplier a phrase of the context gives
ContextScale(context_lower) ==
    IF AnyIn(<<"in thousands", "thousands of dollars", "thousands, except",
               "amounts in thousands", "dollars in thousands">>, context_lower)
        THEN 3
    ELSE IF AnyIn(<<"in millions", "millions of dollars", "millions, except",
                    "amounts in millions", "dollars in millions">>, context_lower)
        THEN 6
    ELSE IF AnyIn(<<"in billions", "billions of dollars", "billions, except",
                    "amounts in billions", "dollars in billions">>, context_lower)
        THEN 9
    ELSE 0

\* multiplier (as an exponent of 10) from the value and the context
Multiplier(value_lower, context_lower) ==
    LET explicit == ExplicitScale(value_lower)
    IN  IF explicit = 0 /\ context_lower # ""
            THEN ContextScale(context_lower)
            ELSE explicit

\* a version that rescales every bare number from 100,000 up
SmartScaleNoCeiling(final_value, multiplier) ==
    IF multiplier = 0 /\ GE(final_value, 5)
        THEN Times10(final_value, 3)
        ELSE final_value

\* a version that rescales whatever multiplier was applied before
SmartScaleOnTop(final_value, multiplier) ==
    IF GE(final_value, 9) THEN final_value
    ELSE IF GE(final_value, 5) THEN Times10(final_value, 3)
    ELSE final_value

\* "Smart scaling for large numbers without explicit multipliers"
SmartScale(final_value, multiplier) ==
    IF multiplier = 0
        THEN IF GE(final_value, 9) THEN final_value
             ELSE IF GE(final_value, 5) THEN Times10(final_value, 3)
             ELSE final_value
        ELSE final_value

\* "Format based on size with proper precision"
FormatAmount(final_value) ==
    IF AbsGE(final_value, 12) THEN "$" \o Fixed2(final_value, 12) \o "T"
    ELSE IF AbsGE(final_value, 9) THEN "$" \o Fixed2(final_value, 9) \o "B"
    ELSE IF AbsGE(final_value, 6) THEN "$" \o Fixed2(final_value, 6) \o "M"
    ELSE IF AbsGE(final_value, 3) THEN "$" \o Fixed2(final_value, 3) \o "K"
    ELSE "$" \o Fixed0(final_value)

normalize_financial_value(raw, ctx) ==
    LET cleaned == Strip(RemoveChar(RemoveChar(raw, ","), "$"))
        is_negative == \/ StartsWith(cleaned, "-")
                       \/ StartsWith(cleaned, "(")
                       \/ EndsWith(cleaned, ")")
        val == IF is_negative
                   THEN StripSet(LStripSet(cleaned, {"-"}), {"(", ")"})
                   ELSE cleaned
        multiplier == Multiplier(Lower(val), Lower(ctx))
    IN  IF ~HasNumber(val) THEN None
        ELSE LET scaled == Times10(ToFloat(NumberMatch(val)), multiplier)
                 signed == IF is_negative THEN Negate(scaled) ELSE scaled
             IN  Some(FormatAmount(SmartScale(signed, multiplier)))

\* a version that never takes a value for a fraction
PercentScaleNever(num) == num

\* "If number is very small (< 1), assume it's already in decimal form"
PercentScale(num) == IF ~AbsGE(num, 0) THEN Times10(num, 2) ELSE num

normalize_percentage(raw) ==
    LET cleaned == Strip(RemoveChar(raw, "%"))
    IN  IF HasNumber(cleaned)
            THEN Some(Fixed2(PercentScale(ToFloat(NumberMatch(cleaned))), 0) \o "%")
            ELSE None

(***************************************************************************)
(* The values and contexts the normalizer is called with.                  *)
(***************************************************************************)
\* bare integers around the two thresholds of the smart scaling
BareNumbers ==
    {0, 500, 1234, 99999, 100000, 100001, 1200000, 25000000,
     999000000, 1000000000, 1200000000}

\* numbers that magnitude words and suffixes are attached to
ScaledNumbers == {"1.2", "5", "2.5", "300"}

\* magnitude words and letter suffixes, each with the exponent of its multiplier
MagnitudeWords ==
    { <<"thousand", 3>>, <<"thousands", 3>>, <<"k", 3>>, <<"K", 3>>,
      <<"million", 6>>, <<"millions", 6>>, <<"m", 6>>, <<"M", 6>>,
      <<"billion", 9>>, <<"billions", 9>>, <<"b", 9>>, <<"B", 9>>,
      <<"trillion", 12>>, <<"trillions", 12>>, <<"t", 12>>, <<"T", 12>> }

Separators == {"", " "}

WordValues ==
    { n \o sep \o w[1] : n \in ScaledNumbers, sep \in Separators, w \in MagnitudeWords }

SignedValues ==
    { "-" \o ToString(n) : n \in BareNumbers } \cup
    { "(" \o ToString(n) \o ")" : n \in BareNumbers }

OtherValues ==
    {"$1,200,000", "1,200,000,000", "$1.5 billion", "100000.5", "99999.99",
     "-2.5 million", "", ".", "N/A", "$"}

FinancialValues ==
    { ToString(n) : n \in BareNumbers }
        \cup WordValues \cup SignedValues \cup OtherValues

PlainContexts == {"", "Total revenue 1200000 for the year"}

ScaleContexts ==
    {"(amounts in thousands)", "Dollars in Millions, except per share",
     "in billions"}

Contexts == PlainContexts \cup ScaleContexts

\* percentages written with an integer part and at most two decimals, each
\* with the number of hundredths it states
PercentNumbers ==
    { <<"0", 0>>, <<"0.12", 12>>, <<"0.5", 50>>, <<"0.50", 50>>,
      <<"0.99", 99>>, <<"0.01", 1>>, <<"1", 100>>, <<"1.0", 100>>,
      <<"1.5", 150>>, <<"5.00", 500>>, <<"12", 1200>>, <<"12.5", 1250>>,
      <<"99.99", 9999>>, <<"100", 10000>>, <<"250", 25000>> }

PercentDecorations == { <<"", "">>, <<"", "%">>, <<" ", " %">>, <<"", " ">> }

NoDigitValues == {"", "%", "abc", "n/a %", "."}

PercentValues ==
    { d[1] \o n[1] \o d[2] : n \in PercentNumbers, d \in PercentDecorations }
        \cup NoDigitValues \cup {".5", "-5", "1.2.3", "0.005", "0.001%"}

(***************************************************************************)
(* The normalizer as a state machine: a behaviour is one call.              *)
(***************************************************************************)
NormIdle ==
    /\ value = ""
    /\ context = ""
    /\ result = None
    /\ op = "none"

\* self.processing_stats as __init__ builds it and as process_documents
\* resets it. accuracy_score and processing_time are written once after the
\* loop and are left out. extraction_details keeps file and extractions.
NewProcessingStats ==
    [total_documents |-> 0, successful_extractions |-> 0,
     failed_extractions |-> 0, extraction_details |-> <<>>]

ConsIdle ==
    /\ all_extracted_data = <<>>
    /\ consolidated = <<>>
    /\ processed_files = {}
    /\ consPc = "idle"
    /\ attempts = <<>>
    /\ processing_stats = NewProcessingStats
    /\ results = <<>>

ConfIdle ==
    /\ conf_args = <<>>
    /\ conf_result = 0

MergeIdle ==
    /\ consolidated_data = <<>>
    /\ yfinance_data = <<>>
    /\ enhanced_data = <<>>
    /\ mergePc = "idle"

ExtractIdle ==
    /\ document = <<>>
    /\ returned_data = <<>>

RunIdle ==
    /\ ticker = ""
    /\ ordered_data = <<>>
    /\ source_folder = <<>>
    /\ lookups = <<>>
    /\ report = <<>>
    /\ runPc = "idle"

NormInit ==
    NormIdle /\ ConsIdle /\ ConfIdle /\ MergeIdle /\ ExtractIdle /\ RunIdle

NormalizeFinancialValue ==
    \E raw \in FinancialValues, ctx \in Contexts :
        /\ op = "none"
        /\ value' = raw
        /\ context' = ctx
        /\ result' = normalize_financial_value(raw, ctx)
        /\ op' = "financial"
        /\ UNCHANGED <<consVars, confVars, mergeVars, extractVars, runVars>>

NormalizePercentage ==
    \E raw \in PercentValues :
        /\ op = "none"
        /\ value' = raw
        /\ context' = ""
        /\ result' = normalize_percentage(raw)
        /\ op' = "percentage"
        /\ UNCHANGED <<consVars, confVars, mergeVars, extractVars, runVars>>

NormNext == NormalizeFinancialValue \/ NormalizePercentage

SpecNorm == NormInit /\ [][NormNext]_vars

(***************************************************************************)
(* Claims about the normalizer, checked under SpecNorm.                    *)
(***************************************************************************)
Whole(n) == [neg |-> FALSE, m |-> n, e |-> 0]

NoScalePhrase(ctx) == ContextScale(Lower(ctx)) = 0

\* C6 as stated: a bare number in a context without magnitude phrase is
\* multiplied by 1,000 before formatting if and only if it exceeds 100,000.
C6_ThousandsIffAbove100000 ==
    \A n \in BareNumbers :
        (op = "financial" /\ value = ToString(n) /\ NoScalePhrase(context))
            => result = Some(FormatAmount(IF n > 100000
                                              THEN Times10(Whole(n), 3)
                                              ELSE Whole(n)))

\* C6 amended: a bare number in a context without magnitude phrase is
\* multiplied by 1,000 before formatting if and only if it is at least
\* 100,000 and below 1,000,000,000; a number below 100,000, a number of
\* 1,000,000,000 or more and a negative number are formatted as stated.
C6_ThousandsIffInBand ==
    \A n \in BareNumbers :
        /\ (op = "financial" /\ value = ToString(n) /\ NoScalePhrase(context))
               => result = Some(FormatAmount(
                      IF n >= 100000 /\ n < 1000000000
                          THEN Times10(Whole(n), 3)
                          ELSE Whole(n)))
        /\ (/\ op = "financial"
            /\ value \in {"-" \o ToString(n), "(" \o ToString(n) \o ")"}
            /\ NoScalePhrase(context))
               => result = Some(FormatAmount(Negate(Whole(n))))

C6_Witness ==
    /\ op = "financial"
    /\ value = "1200000"
    /\ context = ""
    /\ result = Some("$1.20B")

\* C7: the multiplier applied to a raw value is the one of the magnitude word
\* or letter suffix it contains: thousand/k 10^3, million/m 10^6,
\* billion/b 10^9, trillion/t 10^12.
C7_MultiplierOfMagnitudeWord ==
    \A n \in ScaledNumbers, sep \in Separators, w \in MagnitudeWords :
        (op = "financial" /\ value = n \o sep \o w[1])
            => result = Some(FormatAmount(Times10(ToFloat(NumberMatch(n)), w[2])))

\* f"{h/100:.2f}%" of a number of hundredths
PercentText(h) ==
    ToString(h \div 100) \o "."
        \o (IF h % 100 < 10 THEN "0" ELSE "") \o ToString(h % 100) \o "%"

C23_NegativeMirrorsPositive ==
    \A n \in BareNumbers :
        (/\ op = "financial"
         /\ value \in {"-" \o ToString(n), "(" \o ToString(n) \o ")"})
            => LET multiplier == Multiplier(ToString(n), Lower(context))
               IN  result = Some(FormatAmount(Negate(
                       SmartScale(Times10(Whole(n), multiplier), multiplier))))

\* the exponent of the multiplier that the phrase of a context states
PhraseScale(ctx) ==
    CASE ctx = "(amounts in thousands)" -> 3
      [] ctx = "Dollars in Millions, except per share" -> 6
      [] ctx = "in billions" -> 9
      [] OTHER -> 0

\* C24: one multiplier is applied.  A value with a magnitude word or suffix
\* is scaled by one of the four multipliers, the same whatever the context
\* says; a bare number in a context with a magnitude phrase is scaled by the
\* multiplier of the phrase and by nothing else; a bare number in any other
\* context gets the thousands heuristic alone.
C24_ExactlyOneMultiplier ==
    /\ \A n \in ScaledNumbers, sep \in Separators, w \in MagnitudeWords :
           (op = "financial" /\ value = n \o sep \o w[1])
               => /\ \E k \in {3, 6, 9, 12} :
                         result = Some(FormatAmount(
                                      Times10(ToFloat(NumberMatch(n)), k)))
                  /\ result = normalize_financial_value(value, "")
    /\ \A n \in BareNumbers :
           (op = "financial" /\ value = ToString(n))
               => result = Some(FormatAmount(
                      IF PhraseScale(context) # 0
                          THEN Times10(Whole(n), PhraseScale(context))
                      ELSE IF n >= 100000 /\ n < 1000000000
                          THEN Times10(Whole(n), 3)
                      ELSE Whole(n)))

\* 500 in a table headed '(amounts in thousands)' is 500,000, which the
\* heuristic would take for thousands again.
C24_Witness ==
    /\ op = "financial"
    /\ value = "500"
    /\ context = "(amounts in thousands)"
    /\ result = Some("$500.00K")

\* C27: normalize_percentage is idempotent: normalizing a result gives the
\* result again, and a value already written 'X.XX%' is returned as it is.
C27_PercentageIdempotent ==
    /\ (op = "percentage" /\ result.some)
           => normalize_percentage(result.str) = result
    /\ \A n \in PercentNumbers :
           (/\ op = "percentage"
            /\ value = n[1] \o "%"
            /\ PercentText(n[2]) = value)
               => result = Some(value)

(***************************************************************************)
(* EnhancedConsolidationEngine.                                            *)
(* A candidate is an ExtractedData record; pattern_idx is the number in    *)
(* its extraction_method "enhanced_pattern_<idx>".  A confidence is a      *)
(* number of hundredths.                                                   *)
(***************************************************************************)
ExtractedData(field_name, val, confidence, source_document, pattern_idx) ==
    [field_name |-> field_name, value |-> val, confidence |-> confidence,
     source_document |-> source_document, pattern_idx |-> pattern_idx]

\* the place of x in a list sorted by confidence, descending: after every
\* item that is at least as confident (list.sort is stable)
RECURSIVE InsertByConfidence(_, _)
InsertByConfidence(sorted, x) ==
    IF sorted = <<>> THEN <<x>>
    ELSE IF Head(sorted).confidence >= x.confidence
        THEN <<Head(sorted)>> \o InsertByConfidence(Tail(sorted), x)
        ELSE <<x>> \o sorted

\* items.sort(key=lambda x: x.confidence, reverse=True)
RECURSIVE SortByConfidence(_)
SortByConfidence(items) ==
    IF items = <<>> THEN <<>>
    ELSE InsertByConfidence(
             SortByConfidence(SubSeq(items, 1, Len(items) - 1)),
             items[Len(items)])

FinancialFields ==
    {"revenue", "net_income", "total_assets", "total_liabilities", "market_cap"}

PercentageFields == {"net_margin", "operating_margin", "gross_margin"}

IsRecent(item) == Contains(item.value, "202")
IsScaled(item) == AnyIn(<<"B", "M", "K">>, item.value)
IsPercent(item) == Contains(item.value, "%")
IsAddress(item) ==
    /\ Contains(item.value, ",")
    /\ ~AnyIn(<<"pursuant", "section", "countries outside">>, Lower(item.value))

\* a version with no preference for scaled financial values
ResolveWithoutScaling(field_name, items) ==
    IF items = <<>> THEN ""
    ELSE IF field_name = "fiscal_year" /\ SelectSeq(items, IsRecent) # <<>>
        THEN SelectSeq(items, IsRecent)[1].value
    ELSE IF field_name \in PercentageFields /\ SelectSeq(items, IsPercent) # <<>>
        THEN SelectSeq(items, IsPercent)[1].value
    ELSE IF field_name = "company_address" /\ SelectSeq(items, IsAddress) # <<>>
        THEN SelectSeq(items, IsAddress)[1].value
    ELSE items[1].value

\* a version with no preference for recent fiscal years
ResolveWithoutRecentYear(field_name, items) ==
    IF items = <<>> THEN ""
    ELSE IF field_name \in FinancialFields /\ SelectSeq(items, IsScaled) # <<>>
        THEN SelectSeq(items, IsScaled)[1].value
    ELSE IF field_name \in PercentageFields /\ SelectSeq(items, IsPercent) # <<>>
        THEN SelectSeq(items, IsPercent)[1].value
    ELSE IF field_name = "company_address" /\ SelectSeq(items, IsAddress) # <<>>
        THEN SelectSeq(items, IsAddress)[1].value
    ELSE items[1].value

_enhanced_resolve_conflicts(field_name, items) ==
    IF items = <<>> THEN ""
    ELSE IF field_name = "fiscal_year" /\ SelectSeq(items, IsRecent) # <<>>
        THEN SelectSeq(items, IsRecent)[1].value
    ELSE IF field_name \in FinancialFields /\ SelectSeq(items, IsScaled) # <<>>
        THEN SelectSeq(items, IsScaled)[1].value
    ELSE IF field_name \in PercentageFields /\ SelectSeq(items, IsPercent) # <<>>
        THEN SelectSeq(items, IsPercent)[1].value
    ELSE IF field_name = "company_address" /\ SelectSeq(items, IsAddress) # <<>>
        THEN SelectSeq(items, IsAddress)[1].value
    ELSE items[1].value

\* grouped_data[field_name], in the order of the input
ItemsOf(field_name, extracted_data) ==
    SelectSeq(extracted_data, LAMBDA item : item.field_name = field_name)

FieldNames(extracted_data) ==
    { extracted_data[i].field_name : i \in 1..Len(extracted_data) }

\* Consolidation over a fixed list of fields, a field without candidate
\* getting the empty string.
ConsolidateEveryKnownField(extracted_data) ==
    [ field_name \in FieldNames(extracted_data) \cup {"revenue", "company_name"} |->
        IF field_name \in FieldNames(extracted_data)
        THEN _enhanced_resolve_conflicts(
                 field_name, SortByConfidence(ItemsOf(field_name, extracted_data)))
        ELSE "" ]

consolidate_extracted_data(extracted_data) ==
    [ field_name \in FieldNames(extracted_data) |->
        _enhanced_resolve_conflicts(
            field_name, SortByConfidence(ItemsOf(field_name, extracted_data))) ]

(***************************************************************************)
(* The candidates consolidation is called with: a list built by extending  *)
(* all_extracted_data document after document (process_documents), then    *)
(* one call of consolidate_data.                                           *)
(***************************************************************************)
MaxPerDocument == 2

Documents == {"a.pdf", "b.pdf"}

\* <<field_name, value, confidence, pattern_idx>>
CandidateShapes ==
    { <<"revenue", "1200000", 90, 0>>,
      <<"revenue", "$1.20B", 60, 1>>,
      <<"revenue", "$950.00M", 60, 0>>,
      <<"revenue", "$3.00T", 95, 0>>,
      <<"net_margin", "12.00%", 85, 1>>,
      <<"net_margin", "0.12", 90, 0>>,
      <<"fiscal_year", "September 30, 2023", 80, 5>>,
      <<"fiscal_year", "FY 1999", 90, 0>>,
      <<"company_address", "Macon, Georgia", 70, 3>>,
      <<"company_address", "pursuant to Section 12, of the Act", 80, 0>>,
      <<"company_name", "Apple Inc", 90, 3>>,
      <<"company_name", "Blue Bird Corporation", 90, 2>>,
      <<"company_name", "Blue Bird Corp", 95, 0>> }

\* the order in which extract_with_patterns goes through the fields
FieldOrder ==
    <<"revenue", "net_margin", "company_name", "company_address", "fiscal_year">>

FieldRank(field_name) == CHOOSE i \in 1..Len(FieldOrder) : FieldOrder[i] = field_name

\* an extractor emits c before d: field after field, pattern after pattern
EmittedInOrder(c, d) ==
    \/ FieldRank(c[1]) < FieldRank(d[1])
    \/ c[1] = d[1] /\ c[4] <= d[4]

\* the candidate lists of one document
DocumentCandidates ==
    UNION { { cs \in [1..n -> CandidateShapes] :
                  \A i \in 1..(n - 1) : EmittedInOrder(cs[i], cs[i + 1]) }
            : n \in 0..MaxPerDocument }

ConsInit ==
    /\ NormIdle /\ ConfIdle /\ MergeIdle /\ ExtractIdle /\ RunIdle
    /\ all_extracted_data = <<>>
    /\ consolidated = <<>>
    /\ processed_files = {}
    /\ consPc = "collect"
    /\ attempts = <<>>
    /\ processing_stats = NewProcessingStats
    /\ results = <<>>

\* one pass of the document loop: total_documents += 1,
\* all_extracted_data.extend(extracted_data), successful_extractions += 1
\* and the entry appended to extraction_details
ExtendExtractedData ==
    \E doc \in Documents, cs \in DocumentCandidates :
        LET extracted_data ==
                [ i \in 1..Len(cs) |->
                     ExtractedData(cs[i][1], cs[i][2], cs[i][3], doc, cs[i][4]) ]
        IN  /\ consPc = "collect"
            /\ \A i \in 1..Len(attempts) : attempts[i].file # doc
            /\ all_extracted_data' = all_extracted_data \o extracted_data
            /\ processed_files' = processed_files \cup {doc}
            /\ attempts' = Append(attempts,
                   [file |-> doc, outcome |-> "extracted",
                    extracted_data |-> extracted_data])
            /\ processing_stats' =
                   [processing_stats EXCEPT
                        !.total_documents = @ + 1,
                        !.successful_extractions = @ + 1,
                        !.extraction_details = Append(@,
                            [file |-> doc, extractions |-> Len(extracted_data)])]
            /\ UNCHANGED <<consolidated, consPc, results>>
            /\ UNCHANGED <<normVars, confVars, mergeVars, extractVars, runVars>>

\* A pass that extends nothing although the extractor found candidates: a
\* failure after all_extracted_data.extend would look like this.
DocumentFailsAfterExtend ==
    \E doc \in Documents, cs \in DocumentCandidates :
        /\ consPc = "collect"
        /\ \A i \in 1..Len(attempts) : attempts[i].file # doc
        /\ all_extracted_data' = all_extracted_data \o
               [ i \in 1..Len(cs) |->
                     ExtractedData(cs[i][1], cs[i][2], cs[i][3], doc, cs[i][4]) ]
        /\ attempts' = Append(attempts,
               [file |-> doc, outcome |-> "raised", extracted_data |-> <<>>])
        /\ processing_stats' =
               [processing_stats EXCEPT !.total_documents = @ + 1,
                                        !.failed_extractions = @ + 1]
        /\ UNCHANGED <<consolidated, consPc, processed_files, results>>
        /\ UNCHANGED <<normVars, confVars, mergeVars, extractVars, runVars>>

\* A failing pass whose no-text path leaves without failed_extractions += 1.
DocumentFailsUncounted ==
    \E doc \in Documents, why \in {"no text", "raised"} :
        /\ consPc = "collect"
        /\ \A i \in 1..Len(attempts) : attempts[i].file # doc
        /\ attempts' = Append(attempts,
               [file |-> doc, outcome |-> why, extracted_data |-> <<>>])
        /\ processing_stats' =
               [processing_stats EXCEPT
                    !.total_documents = @ + 1,
                    !.failed_extractions = IF why = "no text" THEN @ ELSE @ + 1]
        /\ UNCHANGED <<all_extracted_data, consolidated, consPc, processed_files>>
        /\ UNCHANGED results
        /\ UNCHANGED <<normVars, confVars, mergeVars, extractVars, runVars>>

\* one pass of the document loop that fails: total_documents += 1, then
\* _extract_text_from_file returns no text (failed_extractions += 1,
\* continue), or it or extract_data raises (except: failed_extractions += 1)
DocumentFails ==
    \E doc \in Documents, why \in {"no text", "raised"} :
        /\ consPc = "collect"
        /\ \A i \in 1..Len(attempts) : attempts[i].file # doc
        /\ attempts' = Append(attempts,
               [file |-> doc, outcome |-> why, extracted_data |-> <<>>])
        /\ processing_stats' =
               [processing_stats EXCEPT !.total_documents = @ + 1,
                                        !.failed_extractions = @ + 1]
        /\ UNCHANGED <<all_extracted_data, consolidated, consPc, processed_files>>
        /\ UNCHANGED results
        /\ UNCHANGED <<normVars, confVars, mergeVars, extractVars, runVars>>

\* consolidated_data = self.extractor.consolidate_data(all_extracted_data)
ConsolidateData ==
    /\ consPc = "collect"
    /\ consolidated' = consolidate_extracted_data(all_extracted_data)
    /\ consPc' = "done"
    /\ UNCHANGED <<all_extracted_data, processed_files, attempts>>
    /\ UNCHANGED <<processing_stats, results>>
    /\ UNCHANGED <<normVars, confVars, mergeVars, extractVars, runVars>>

ConsNext == ExtendExtractedData \/ DocumentFails \/ ConsolidateData

SpecCons == ConsInit /\ [][ConsNext]_vars

(***************************************************************************)
(* Claims about consolidation, checked under SpecCons.                     *)
(***************************************************************************)
Indexes(field_name) ==
    { i \in 1..Len(all_extracted_data) :
          all_extracted_data[i].field_name = field_name }

HasSuffix(v) == Contains(v, "B") \/ Contains(v, "M") \/ Contains(v, "K")

ScaledIndexes(field_name) ==
    { i \in Indexes(field_name) : HasSuffix(all_extracted_data[i].value) }

\* C1: for revenue, net_income, total_assets, total_liabilities and
\* market_cap, whenever a candidate carries a suffix B, M or K the
\* consolidated value is that of a most confident such candidate, even if a
\* candidate without suffix is more confident.
C1_ScaledCandidateWins ==
    consPc = "done" =>
        \A f \in FinancialFields :
            ScaledIndexes(f) # {} =>
                \E i \in ScaledIndexes(f) :
                    /\ consolidated[f] = all_extracted_data[i].value
                    /\ \A j \in ScaledIndexes(f) :
                           all_extracted_data[j].confidence
                               <= all_extracted_data[i].confidence

C1_Witness ==
    /\ consPc = "done"
    /\ \E i, j \in Indexes("revenue") :
           /\ all_extracted_data[i].value = "1200000"
           /\ all_extracted_data[i].confidence = 90
           /\ all_extracted_data[j].value = "$1.20B"
           /\ all_extracted_data[j].confidence = 60
    /\ ScaledIndexes("revenue") # {}
    /\ consolidated["revenue"] = "$1.20B"

Permuted(p) ==
    [ i \in 1..Len(all_extracted_data) |-> all_extracted_data[p[i]] ]

\* C2: consolidation is commutative over candidate order: every permutation
\* of the candidate list gives the same consolidated field map.
C2_Commutative ==
    consPc = "done" =>
        \A p \in Permutations(1..Len(all_extracted_data)) :
            consolidate_extracted_data(Permuted(p)) = consolidated

MaxConfidence(field_name) ==
    CHOOSE c \in { all_extracted_data[i].confidence : i \in Indexes(field_name) } :
        \A i \in Indexes(field_name) : all_extracted_data[i].confidence <= c

TopIndexes(field_name) ==
    { i \in Indexes(field_name) :
          all_extracted_data[i].confidence = MaxConfidence(field_name) }

DefaultFields == {"company_name"}

\* C3: where confidence decides the winner, a tie in confidence is won by
\* the candidate of the lower-ranked rule (lower pattern index), whichever
\* document or position it came from.
C3_TieWonByLowerRank ==
    consPc = "done" =>
        \A f \in DefaultFields \cap DOMAIN consolidated :
            \E i \in TopIndexes(f) :
                /\ consolidated[f] = all_extracted_data[i].value
                /\ \A j \in TopIndexes(f) :
                       all_extracted_data[i].pattern_idx
                           <= all_extracted_data[j].pattern_idx

\* The candidates of the documents that succeeded, in the order of the loop.
CandidatesOfSucceeded ==
    LET upTo[n \in 0..Len(attempts)] ==
            IF n = 0 THEN <<>>
            ELSE IF attempts[n].outcome = "extracted"
                 THEN upTo[n - 1] \o attempts[n].extracted_data
                 ELSE upTo[n - 1]
    IN  upTo[Len(attempts)]

\* C13: a document whose text or candidates cannot be extracted contributes
\* no candidate and does not end the loop: the collection is at every point
\* the concatenation of the candidates of the documents that succeeded,
\* only those are recorded as processed, and that collection is what
\* consolidation is given.
C13_FailingDocumentIsolated ==
    /\ all_extracted_data = CandidatesOfSucceeded
    /\ processed_files =
           {attempts[i].file :
                i \in {j \in 1..Len(attempts) :
                           attempts[j].outcome = "extracted"}}
    /\ consPc = "done" =>
           consolidated = consolidate_extracted_data(CandidatesOfSucceeded)

\* The first document fails, the second one is extracted after it and its
\* candidates are consolidated.
C13_Witness ==
    /\ consPc = "done"
    /\ Len(attempts) = 2
    /\ attempts[1].outcome = "raised"
    /\ attempts[2].outcome = "extracted"
    /\ Len(attempts[2].extracted_data) = 2
    /\ all_extracted_data = attempts[2].extracted_data
    /\ DOMAIN consolidated # {}

\* C19: the keys of the consolidated map are exactly the field names that
\* have a candidate, and each value is the value of one of the field's
\* candidates.
C19_KeysAndValuesComeFromCandidates ==
    consPc = "done" =>
        /\ DOMAIN consolidated =
               {all_extracted_data[i].field_name :
                    i \in 1..Len(all_extracted_data)}
        /\ \A f \in DOMAIN consolidated :
               \E i \in Indexes(f) :
                   consolidated[f] = all_extracted_data[i].value

\* Two revenue candidates and no candidate of any other field: the map has
\* the key revenue only.
C19_Witness ==
    /\ consPc = "done"
    /\ Len(all_extracted_data) = 2
    /\ Indexes("revenue") = {1, 2}
    /\ all_extracted_data[1].value # all_extracted_data[2].value
    /\ DOMAIN consolidated = {"revenue"}

\* v contains a year from 2020 to 2029 written as a number of four digits
HasRecentYear(v) ==
    \E i \in 1..(Len(v) - 3) :
        /\ SubSeq(v, i, i + 2) = "202"
        /\ IsDigit(Char(v, i + 3))
        /\ i = 1 \/ ~IsDigit(Char(v, i - 1))
        /\ i + 3 = Len(v) \/ ~IsDigit(Char(v, i + 4))

Passes(outcomes) ==
    Cardinality({ i \in 1..Len(attempts) : attempts[i].outcome \in outcomes })

\* C26: at every boundary of the document loop, and so after it and in the
\* result, total_documents = successful_extractions + failed_extractions;
\* a document that produced candidates is counted as successful and only
\* so, a document with no text or an exception as failed and only so.
C26_EachDocumentCountedOnce ==
    /\ processing_stats.total_documents =
           processing_stats.successful_extractions
               + processing_stats.failed_extractions
    /\ processing_stats.total_documents = Len(attempts)
    /\ processing_stats.successful_extractions = Passes({"extracted"})
    /\ processing_stats.failed_extractions = Passes({"no text", "raised"})

\* the loop is over after one document gave no text and one was extracted
C26_Witness ==
    /\ consPc = "done"
    /\ Passes({"no text"}) = 1
    /\ Passes({"extracted"}) = 1
    /\ processing_stats.total_documents = 2

(***************************************************************************)
(* The confidence scorer of TargetedPatternMatcher.  A confidence is kept  *)
(* in hundredths (0.85 is 85): every base value and every bonus of the     *)
(* code is a whole number of hundredths, and the doubles the code adds     *)
(* differ from these sums by less than 1e-15 before the final min, which   *)
(* returns the double 1.0 itself whenever the sum is 1.0 or more.          *)
(***************************************************************************)

\* The number of rules each field of the pattern library has, in the
\* order of the two dictionaries.
PatternCount ==
    [revenue |-> 4, net_income |-> 4, net_margin |-> 3,
     operating_margin |-> 3, total_assets |-> 2, total_liabilities |-> 3,
     eps |-> 3, market_cap |-> 2, employees |-> 3, operating_income |-> 3,
     operating_cash_flow |-> 3, shareholders_equity |-> 3, roe |-> 3,
     gross_profit |-> 2, gross_margin |-> 3, current_assets |-> 2,
     current_liabilities |-> 2, current_ratio |-> 3, total_debt |-> 3,
     debt_to_equity |-> 3, pe_ratio |-> 3, book_value_per_share |-> 3,
     dividend_per_share |-> 3, dividend_yield |-> 3,
     shares_outstanding |-> 3, roa |-> 3, roic |-> 3,
     working_capital |-> 2, enterprise_value |-> 2, ebitda |-> 3,
     free_cash_flow |-> 3,
     company_name |-> 8, company_address |-> 5, fiscal_year |-> 9,
     stock_symbol |-> 9, industry |-> 3, primary_business |-> 3,
     geographic_markets |-> 3, key_products |-> 3]

company_patterns ==
    {"company_name", "company_address", "fiscal_year", "stock_symbol",
     "industry", "primary_business", "geographic_markets", "key_products"}

financial_patterns == DOMAIN PatternCount \ company_patterns

\* field_confidence_map.get(field_type, base_confidence)
field_confidence_map(field_type) ==
    CASE field_type = "company_name" -> 90
      [] field_type = "stock_symbol" -> 95
      [] field_type \in {"revenue", "net_income"} -> 85
      [] field_type = "fiscal_year" -> 80
      [] field_type \in {"company_address", "geographic_markets",
                         "key_products"} -> 70
      [] field_type \in {"industry", "primary_business"} -> 75
      [] OTHER -> 80

\* The sum the scorer builds before its last line.  company_context is the
\* record of _detect_company_context; a key the dictionary lacks is "",
\* which .get() treats as it treats an empty string.
ConfidenceSum(field_type, ctx, pattern_idx, company_context) ==
    LET base == field_confidence_map(field_type)
        rank == IF pattern_idx = 0 THEN 10
                ELSE IF pattern_idx = 1 THEN 5 ELSE 0
        indicators == <<"consolidated", "financial", "statements",
                        "income", "balance sheet">>
        signal == IF /\ ctx # ""
                     /\ field_type \in {"revenue", "net_income",
                                        "total_assets"}
                     /\ AnyIn(indicators, Lower(ctx))
                  THEN 5 ELSE 0
        doc_name == company_context.document_name
        identity == doc_name # ""
                    /\ field_type \in {"company_name", "stock_symbol"}
        name_bonus == IF /\ identity
                         /\ company_context.company_name # ""
                         /\ Contains(doc_name,
                                Lower(company_context.company_name))
                      THEN 5 ELSE 0
        symbol_bonus == IF /\ identity
                           /\ company_context.stock_symbol # ""
                           /\ Contains(doc_name,
                                Lower(company_context.stock_symbol))
                        THEN 5 ELSE 0
    IN  base + rank + signal + name_bonus + symbol_bonus

ConfidenceWithoutCeiling(field_type, ctx, pattern_idx, company_context) ==
    ConfidenceSum(field_type, ctx, pattern_idx, company_context)

\* The pattern and match arguments of the code are never read.
_calculate_enhanced_confidence(field_type, ctx, pattern_idx, company_context) ==
    LET sum == ConfidenceSum(field_type, ctx, pattern_idx, company_context)
    IN  IF sum < 100 THEN sum ELSE 100

(***************************************************************************)
(* SpecConf: one call of the scorer on one field, rule rank, context text  *)
(* and detected company context.                                           *)
(***************************************************************************)

ScoredFields == DOMAIN PatternCount \cup {"unlisted_field"}

ScoredContexts ==
    {"", "Total revenue of 1,234", "Consolidated Balance Sheet"}

CompanyContexts ==
    [document_name : {"", "bluebird_dv_10k.pdf", "report.pdf"},
     company_name : {"", "BlueBird", "Apple Inc"},
     stock_symbol : {"", "DV", "AAPL"}]

ConfInit ==
    /\ NormIdle /\ ConsIdle /\ MergeIdle /\ ExtractIdle /\ RunIdle
    /\ conf_args = <<>>
    /\ conf_result = 0

CalculateEnhancedConfidence ==
    /\ conf_args = <<>>
    /\ \E field_type \in ScoredFields, ctx \in ScoredContexts,
          company_context \in CompanyContexts :
        \E pattern_idx \in
              0..((IF field_type \in DOMAIN PatternCount
                      THEN PatternCount[field_type] ELSE 1) - 1) :
            /\ conf_args' = [field_type |-> field_type, context |-> ctx,
                             pattern_idx |-> pattern_idx,
                             company_context |-> company_context]
            /\ conf_result' = _calculate_enhanced_confidence(
                                  field_type, ctx, pattern_idx,
                                  company_context)
    /\ UNCHANGED <<normVars, consVars, mergeVars, extractVars, runVars>>

ConfNext == CalculateEnhancedConfidence

SpecConf == ConfInit /\ [][ConfNext]_vars

(***************************************************************************)
(* Claims about the scorer, checked under SpecConf.                        *)
(***************************************************************************)

\* C4 as stated: every confidence the scorer returns lies in [0.2, 0.98],
\* whatever the field, rule rank, context and company context; it is never
\* exactly 1.
C4_ConfidenceWithin20And98 ==
    conf_args # <<>> => (20 <= conf_result /\ conf_result <= 98)

\* C4 as amended: every confidence the scorer returns lies in [0.2, 1.0];
\* the upper end 1.0 is the clamp and is returned.
C4_ConfidenceWithin20And100 ==
    conf_args # <<>> => (20 <= conf_result /\ conf_result <= 100)

\* The first stock_symbol rule scores 0.95 + 0.1, which the clamp cuts to 1.
C4_Witness ==
    /\ conf_args # <<>>
    /\ conf_args.field_type = "stock_symbol"
    /\ conf_args.pattern_idx = 0
    /\ conf_result = 100

(***************************************************************************)
(* The enrichment step of EnhancedAutomationEngine.  A dictionary is a     *)
(* function from its keys; Get is dict.get() read for truth, where a       *)
(* missing key and an empty string are the same.                           *)
(***************************************************************************)

Get(dict, key) == IF key \in DOMAIN dict THEN dict[key] ELSE ""

\* re.match(r'^[A-Z]{1,5}$', s): $ also matches before one final newline.
IsTickerFormat(s) ==
    LET body == IF s # "" /\ Char(s, Len(s)) = "\n"
                    THEN SubSeq(s, 1, Len(s) - 1) ELSE s
    IN  /\ Len(body) \in 1..5
        /\ \A i \in 1..Len(body) : IsUpper(Char(body, i))

yfinance_fields ==
    {"market_cap", "employees", "operating_cash_flow",
     "shareholders_equity", "roe", "gross_margin", "operating_margin",
     "net_margin", "current_ratio", "debt_to_equity", "eps", "pe_ratio",
     "book_value_per_share", "competitors", "acquisitions",
     "product_launches", "strategic_initiatives", "regulatory_changes",
     "market_developments", "overall_rating", "price_target",
     "investment_horizon", "risk_assessment", "strengths_analysis",
     "weaknesses_analysis", "opportunities_analysis", "threats_analysis"}

financial_metrics ==
    {"operating_cash_flow", "shareholders_equity", "roe", "gross_margin",
     "operating_margin", "net_margin", "current_ratio", "debt_to_equity",
     "eps", "pe_ratio", "book_value_per_share"}

analysis_sections ==
    {"competitors", "acquisitions", "product_launches",
     "strategic_initiatives", "regulatory_changes", "market_developments",
     "overall_rating", "price_target", "investment_horizon",
     "risk_assessment", "strengths_analysis", "weaknesses_analysis",
     "opportunities_analysis", "threats_analysis"}

\* One of the three loops of the merge: every field of taken, the fields
\* of the loop's list that pass its test, gets the external value.  No loop
\* reads a key another iteration of the same loop writes, so the order
\* within a loop is immaterial.
CopyFields(enhanced, external, taken) ==
    [k \in DOMAIN enhanced \cup taken |->
        IF k \in taken THEN external[k] ELSE enhanced[k]]

FillMissing(enhanced, external) ==
    CopyFields(enhanced, external,
        {f \in yfinance_fields :
            Get(enhanced, f) = "" /\ Get(external, f) # ""})

UseFinancialMetricsAlways(enhanced, external) ==
    CopyFields(enhanced, external,
        {f \in financial_metrics : Get(external, f) # ""})

UseFinancialMetrics(enhanced, external) ==
    CopyFields(enhanced, external,
        {f \in financial_metrics :
            Get(external, f) # "" /\ external[f] # "N/A"})

UseAnalysisSections(enhanced, external) ==
    CopyFields(enhanced, external,
        {f \in analysis_sections : Get(external, f) # ""})

\* lookup is what ComprehensiveFinancialAnalyzer(symbol).extract_all_data()
\* does: it raises, or it returns a map.  The revenue comparison that ends
\* the merge only logs: _parse_financial_value catches its own errors and
\* the divisor is non-zero when the division is reached.
_enhanced_yfinance_integration(consolidated_map, lookup) ==
    LET stock_symbol == Upper(Get(consolidated_map, "stock_symbol"))
    IN  IF stock_symbol = "" THEN consolidated_map
        ELSE IF ~IsTickerFormat(stock_symbol) THEN consolidated_map
        ELSE IF lookup.kind = "raises" THEN consolidated_map
        ELSE IF DOMAIN lookup.data = {} THEN consolidated_map
        ELSE UseAnalysisSections(
                 UseFinancialMetrics(
                     FillMissing(consolidated_map, lookup.data),
                     lookup.data),
                 lookup.data)

\* re.sub(r'[^A-Z]', '', s)
KeepUpper(s) ==
    LET keep[i \in 0..Len(s)] ==
            IF i = 0 THEN ""
            ELSE IF IsUpper(Char(s, i)) THEN keep[i - 1] \o Char(s, i)
            ELSE keep[i - 1]
    IN  keep[Len(s)]

\* The symbol as if the caller had passed no stock_symbol.
YfinanceSymbolIgnoringArgument(extracted_map, stock_symbol_arg) ==
    KeepUpper(Upper(Strip(IF "stock_symbol" \in DOMAIN extracted_map
                          THEN extracted_map["stock_symbol"] ELSE "BLBD")))

\* The symbol the legacy enrichment step looks up; a stock_symbol argument
\* of None is "".
YfinanceSymbol(extracted_map, stock_symbol_arg) ==
    LET given == IF stock_symbol_arg # "" THEN stock_symbol_arg
                 ELSE IF "stock_symbol" \in DOMAIN extracted_map
                      THEN extracted_map["stock_symbol"]
                      ELSE "BLBD"
    IN  KeepUpper(Upper(Strip(given)))

\* The legacy step with the copy made inside the try block, so that a
\* failing lookup leaves nothing to return.
EnhanceLosingInputOnFailure(extracted_map, stock_symbol_arg, lookup) ==
    LET symbol == YfinanceSymbol(extracted_map, stock_symbol_arg)
    IN  IF Len(symbol) \notin 1..5 THEN extracted_map
        ELSE IF lookup.kind = "raises" THEN <<>>
        ELSE [k \in DOMAIN extracted_map \cup DOMAIN lookup.data |->
                 IF k \in DOMAIN lookup.data /\ Get(extracted_map, k) = ""
                 THEN lookup.data[k] ELSE extracted_map[k]]

\* automation_engine.py: every key of the external map that is absent or
\* empty in the input takes the external value.
enhance_with_yfinance_data(extracted_map, stock_symbol_arg, lookup) ==
    LET symbol == YfinanceSymbol(extracted_map, stock_symbol_arg)
    IN  IF Len(symbol) \notin 1..5 THEN extracted_map
        ELSE IF lookup.kind = "raises" THEN extracted_map
        ELSE [k \in DOMAIN extracted_map \cup DOMAIN lookup.data |->
                 IF k \in DOMAIN lookup.data /\ Get(extracted_map, k) = ""
                 THEN lookup.data[k] ELSE extracted_map[k]]

(***************************************************************************)
(* SpecMerge: one call of an enrichment step on one consolidated map and   *)
(* one outcome of the external lookup.                                     *)
(***************************************************************************)

Missing == "<missing>"

\* What the consolidated map can hold for a field: Missing is no key.
ConsolidatedValues ==
    [stock_symbol |-> {Missing, "dv", "DV", "DVXXXX"},
     company_name |-> {Missing, "", "Blue Bird Corporation"},
     net_margin |-> {Missing, "", "5.00%"},
     market_cap |-> {Missing, "", "$1.20B"},
     competitors |-> {Missing, "", "Thomas Built Buses"}]

\* What extract_all_data returns for a field: the formatters return 'N/A'
\* for a figure the source lacks.
ExternalValues ==
    [company_name |-> {"", "N/A", "Blue Bird Corp"},
     net_margin |-> {"N/A", "7.25%"},
     market_cap |-> {"N/A", "$2.50B"},
     competitors |-> {"Navistar"}]

DictsOf(choices) ==
    LET fields == DOMAIN choices
        anyValue == UNION {choices[f] : f \in fields}
        picks == {g \in [fields -> anyValue] :
                     \A f \in fields : g[f] \in choices[f]}
    IN  {[k \in {f \in fields : g[f] # Missing} |-> g[k]] : g \in picks}

\* A map that extract_all_data returns carries the ticker it was asked
\* for; the callers also provide for a result that holds nothing.
LookupOutcomes(symbol) ==
    {[kind |-> "raises"], [kind |-> "returns", data |-> <<>>]}
    \cup {[kind |-> "returns",
           data |-> [k \in DOMAIN d \cup {"stock_symbol"} |->
                        IF k = "stock_symbol" THEN symbol ELSE d[k]]] :
            d \in DictsOf(ExternalValues)}

LookupIsMade(consolidated_map) ==
    IsTickerFormat(Upper(Get(consolidated_map, "stock_symbol")))

MergeInit ==
    /\ NormIdle /\ ConsIdle /\ ConfIdle /\ ExtractIdle /\ RunIdle
    /\ consolidated_data = <<>>
    /\ yfinance_data = <<>>
    /\ enhanced_data = <<>>
    /\ mergePc = "call"

EnhancedYfinanceIntegration ==
    /\ mergePc = "call"
    /\ \E consolidated_map \in DictsOf(ConsolidatedValues) :
        \E lookup \in
              IF LookupIsMade(consolidated_map)
                  THEN LookupOutcomes(
                           Upper(consolidated_map["stock_symbol"]))
                  ELSE {[kind |-> "not made"]} :
            /\ consolidated_data' = consolidated_map
            /\ yfinance_data' = lookup
            /\ enhanced_data' =
                   _enhanced_yfinance_integration(consolidated_map, lookup)
    /\ mergePc' = "done"
    /\ UNCHANGED <<normVars, consVars, confVars, extractVars, runVars>>

StockSymbolArguments == {"", "DV", "UNKNOWN"}

EnhanceWithYfinanceData ==
    /\ mergePc = "call"
    /\ \E extracted_map \in DictsOf(ConsolidatedValues) :
        \E stock_symbol_arg \in StockSymbolArguments :
        \E lookup \in
              IF Len(YfinanceSymbol(extracted_map, stock_symbol_arg)) \in 1..5
                  THEN LookupOutcomes(
                           YfinanceSymbol(extracted_map, stock_symbol_arg))
                  ELSE {[kind |-> "not made"]} :
            /\ consolidated_data' = extracted_map
            /\ ticker' = stock_symbol_arg
            /\ yfinance_data' = lookup
            /\ enhanced_data' =
                   enhance_with_yfinance_data(extracted_map, stock_symbol_arg,
                                              lookup)
    /\ mergePc' = "enhanced"
    /\ UNCHANGED <<ordered_data, source_folder, lookups, report, runPc>>
    /\ UNCHANGED <<normVars, consVars, confVars, extractVars>>

MergeNext == EnhancedYfinanceIntegration \/ EnhanceWithYfinanceData

SpecMerge == MergeInit /\ [][MergeNext]_vars

(***************************************************************************)
(* Claims about the enrichment step, checked under SpecMerge.              *)
(***************************************************************************)

LookupSucceeded == mergePc = "done" /\ yfinance_data.kind = "returns"

AuthoritativeElsewhere == financial_metrics \cup analysis_sections

\* C10 as stated: after a successful lookup, a field that is non-empty in
\* the consolidated map has the external value if it is a financial
\* ratio/margin or an analysis section and the external value is non-empty,
\* and keeps the document-derived value otherwise.
C10_AuthoritativeFieldsReplaced ==
    LookupSucceeded =>
        \A f \in DOMAIN consolidated_data :
            consolidated_data[f] # "" =>
                enhanced_data[f] =
                    IF /\ f \in AuthoritativeElsewhere
                       /\ Get(yfinance_data.data, f) # ""
                    THEN yfinance_data.data[f]
                    ELSE consolidated_data[f]

\* C10 as amended: the same, except that the external value of a financial
\* ratio/margin replaces the document-derived one only if it is also not
\* the placeholder 'N/A'.
C10_AvailableAuthoritativeFieldsReplaced ==
    LookupSucceeded =>
        \A f \in DOMAIN consolidated_data :
            consolidated_data[f] # "" =>
                enhanced_data[f] =
                    IF /\ f \in AuthoritativeElsewhere
                       /\ Get(yfinance_data.data, f) # ""
                       /\ (f \in financial_metrics
                              => yfinance_data.data[f] # "N/A")
                    THEN yfinance_data.data[f]
                    ELSE consolidated_data[f]

\* A document net_margin of '5.00%' is replaced by the external '7.25%'
\* while the document company_name survives a different external one.
C10_Witness ==
    /\ LookupSucceeded
    /\ Get(consolidated_data, "net_margin") = "5.00%"
    /\ Get(enhanced_data, "net_margin") = "7.25%"
    /\ Get(consolidated_data, "company_name") = "Blue Bird Corporation"
    /\ Get(yfinance_data.data, "company_name") = "Blue Bird Corp"
    /\ Get(enhanced_data, "company_name") = "Blue Bird Corporation"

\* C11: after a successful lookup, every field that is absent or empty in
\* the consolidated map and non-empty in the external map has the external
\* value, whatever the field is.
C11_EveryMissingFieldFilled ==
    LookupSucceeded =>
        \A f \in DOMAIN yfinance_data.data :
            (Get(consolidated_data, f) = "" /\ yfinance_data.data[f] # "")
                => Get(enhanced_data, f) = yfinance_data.data[f]

LookupFailed ==
    /\ mergePc \in {"done", "enhanced"}
    /\ \/ yfinance_data.kind = "raises"
       \/ yfinance_data.kind = "returns" /\ DOMAIN yfinance_data.data = {}

\* C12: when the external lookup raises or returns nothing, either
\* enrichment step returns a map with exactly the keys and values of its
\* input map.
C12_FailedLookupPassesInputThrough ==
    LookupFailed =>
        /\ DOMAIN enhanced_data = DOMAIN consolidated_data
        /\ \A f \in DOMAIN consolidated_data :
               enhanced_data[f] = consolidated_data[f]

\* The legacy step is called on a map that lacks market_cap, the lookup
\* raises, and the map comes back.
C12_Witness ==
    /\ mergePc = "enhanced"
    /\ yfinance_data.kind = "raises"
    /\ Get(consolidated_data, "company_name") = "Blue Bird Corporation"
    /\ "market_cap" \notin DOMAIN consolidated_data
    /\ Get(enhanced_data, "company_name") = "Blue Bird Corporation"

(***************************************************************************)
(* Python's re, as far as the modelled rules use it.  A rule is a tree of  *)
(* nodes; Run is the backtracking matcher: it matches the nodes of todo,   *)
(* in order, from position st.pos and returns the state of the first       *)
(* match in re's preference order (alternatives left to right, repetition  *)
(* greedy), or Fail.  Every call of the extractor passes re.IGNORECASE or  *)
(* the rule starts with (?i), so rules are written in lower case and run   *)
(* on the lower-cased text; positions are those of the text itself.        *)
(***************************************************************************)

Fail == [pos |-> 0, gs |-> 0, ge |-> 0]

RECURSIVE Run(_, _, _, _)
RECURSIVE RunAlt(_, _, _, _, _)

Run(todo, s, st, multiline) ==
    IF todo = <<>> THEN st
    ELSE
      LET n == Head(todo)
          rest == Tail(todo)
          step(k) == Run(rest, s, [st EXCEPT !.pos = @ + k], multiline)
      IN  CASE n.t = "lit" ->
                  IF /\ st.pos + Len(n.s) - 1 <= Len(s)
                     /\ SubSeq(s, st.pos, st.pos + Len(n.s) - 1) = n.s
                  THEN step(Len(n.s)) ELSE Fail
            [] n.t = "set" ->
                  IF /\ st.pos <= Len(s)
                     /\ (Char(s, st.pos) \in n.chars) # n.negated
                  THEN step(1) ELSE Fail
            [] n.t = "cat" -> Run(n.of \o rest, s, st, multiline)
            [] n.t = "alt" -> RunAlt(n.of, rest, s, st, multiline)
            [] n.t = "run" ->
                  \* a greedy repetition of a character class: the longest
                  \* run first, then shorter ones down to n.min
                  LET fits(k) == \A j \in 0..(k - 1) :
                                     (Char(s, st.pos + j) \in n.chars)
                                         # n.negated
                      longest == CHOOSE k \in 0..(Len(s) - st.pos + 1) :
                                     /\ fits(k)
                                     /\ \/ st.pos + k > Len(s)
                                        \/ ~fits(k + 1)
                      good == {k \in n.min..longest : step(k) # Fail}
                  IN  IF good = {} THEN Fail
                      ELSE step(CHOOSE k \in good : \A j \in good : j <= k)
            [] n.t = "group" ->
                  Run(<<n.of, [t |-> "end"]>> \o rest, s,
                      [st EXCEPT !.gs = st.pos], multiline)
            [] n.t = "end" ->
                  Run(rest, s, [st EXCEPT !.ge = st.pos], multiline)
            [] n.t = "bol" ->
                  IF \/ st.pos = 1
                     \/ multiline /\ Char(s, st.pos - 1) = "\n"
                  THEN step(0) ELSE Fail

RunAlt(alternatives, rest, s, st, multiline) ==
    IF alternatives = <<>> THEN Fail
    ELSE LET first == Run(<<Head(alternatives)>> \o rest, s, st, multiline)
         IN  IF first # Fail THEN first
             ELSE RunAlt(Tail(alternatives), rest, s, st, multiline)

\* re.finditer(rule, text): the matches from position i on, left to right
\* and not overlapping.  A match is [start, end, gs, ge]: it is
\* text[start..end-1] and its group 1 is text[gs..ge-1].
RECURSIVE FindIter(_, _, _, _)
FindIter(rule, s, i, multiline) ==
    LET at(j) == Run(<<rule>>, s, [pos |-> j, gs |-> 0, ge |-> 0],
                     multiline)
        starts == {j \in i..Len(s) : at(j) # Fail}
    IN  IF starts = {} THEN <<>>
        ELSE LET j == CHOOSE a \in starts : \A b \in starts : a <= b
                 m == at(j)
             IN  <<[start |-> j, end |-> m.pos, gs |-> m.gs, ge |-> m.ge]>>
                 \o FindIter(rule, s, m.pos, multiline)

\* The rules of the pattern library for the fields the documents of the
\* model can make match, in the order of the dictionaries.
pattern_library ==
    LET Lit(str) == [t |-> "lit", s |-> str]
        OneOf(cs) == [t |-> "set", chars |-> cs, negated |-> FALSE]
        Cat(ns) == [t |-> "cat", of |-> ns]
        Alt(ns) == [t |-> "alt", of |-> ns]
        Star(cs) == [t |-> "run", chars |-> cs, negated |-> FALSE,
                     min |-> 0]
        Plus(cs) == [t |-> "run", chars |-> cs, negated |-> FALSE,
                     min |-> 1]
        Opt(n) == Alt(<<n, Cat(<<>>)>>)
        Group(n) == [t |-> "group", of |-> n]
        Bol == [t |-> "bol"]
        digit == {Char(Digits, i) : i \in 1..Len(Digits)}
        letter == {Char(LowerAlpha, i) : i \in 1..Len(LowerAlpha)}
        space == {" ", "\t", "\n"}
        s0 == Star(space)
        s1 == Plus(space)
        W(words) == Alt([i \in 1..Len(words) |-> Lit(words[i])])
        \* lit\s+lit...: the words of a phrase, \s+ between them
        Phrase(words) ==
            Cat([i \in 1..(2 * Len(words) - 1) |->
                    IF i % 2 = 1 THEN Lit(words[(i + 1) \div 2]) ELSE s1])
        dollar == Cat(<<s0, Opt(Lit("$")), s0>>)
        number == Plus(digit \cup {",", "."})
        unit == W(<<"million", "billion", "m", "b">>)
        \* ([\d,\.]+(?:\s*(?:million|billion|m|b))?)
        tableAmount == Group(Cat(<<number, Opt(Cat(<<s0, unit>>))>>))
        \* ([\d,\.]+\s*(?:million|billion|m|b)?)
        proseAmount == Group(Cat(<<number, s0, Opt(unit)>>))
        \* (?:of\s+|was\s+|were\s+)?
        ofWas == Opt(Cat(<<W(<<"of", "was", "were">>), s1>>))
        \* ([\d\.]+)
        percent == Group(Plus(digit \cup {"."}))
        \* ([A-Z][A-Za-z\s&\.,]+(?:Corporation|Corp\.?|Inc\.?|LLC|Ltd\.?|Company|Co\.?))
        name == Group(Cat(<<OneOf(letter),
                    Plus(letter \cup space \cup {"&", ".", ","}),
                    Alt(<<Lit("corporation"),
                          Cat(<<Lit("corp"), Opt(Lit("."))>>),
                          Cat(<<Lit("inc"), Opt(Lit("."))>>),
                          Lit("llc"),
                          Cat(<<Lit("ltd"), Opt(Lit("."))>>),
                          Lit("company"),
                          Cat(<<Lit("co"), Opt(Lit("."))>>)>>)>>))
        revenueWord == Alt(<<Phrase(<<"net", "sales">>),
                             Phrase(<<"total", "revenue">>),
                             Lit("revenue")>>)
    IN  [revenue |-> <<
            Cat(<<revenueWord, dollar, tableAmount>>),
            Cat(<<Alt(<<Phrase(<<"net", "sales">>),
                        Phrase(<<"total", "revenue">>)>>),
                  dollar, Group(number)>>),
            Cat(<<revenueWord, s1, ofWas, Opt(Lit("$")), s0,
                  proseAmount>>),
            Cat(<<W(<<"generated", "reported">>), s1,
                  Phrase(<<"revenue", "of">>), s1, Opt(Lit("$")), s0,
                  proseAmount>>)>>,
         net_margin |-> <<
            Cat(<<Lit("net"), s1, Opt(Cat(<<Lit("profit"), s1>>)),
                  Lit("margin"), s0, ofWas, percent, Lit("%")>>),
            Cat(<<Phrase(<<"net", "margin">>), s0, Lit(":"), s0, percent,
                  Lit("%")>>),
            Cat(<<Lit("net"), s1, Opt(Cat(<<Lit("profit"), s1>>)),
                  Lit("margin"), s0, Opt(Cat(<<Lit("of"), s1>>)),
                  percent, s0, Lit("percent")>>)>>,
         operating_income |-> <<
            Cat(<<Alt(<<Phrase(<<"operating", "income">>),
                        Phrase(<<"operating", "earnings">>)>>),
                  dollar, tableAmount>>),
            Cat(<<Phrase(<<"operating", "income">>), s1, ofWas,
                  Opt(Lit("$")), s0, proseAmount>>),
            Cat(<<Phrase(<<"income", "from", "operations">>), dollar,
                  proseAmount>>)>>,
         roe |-> <<
            Cat(<<Phrase(<<"return", "on", "equity">>), s0, ofWas,
                  percent, Lit("%")>>),
            Cat(<<Lit("roe"), s0, ofWas, percent, Lit("%")>>),
            Cat(<<Phrase(<<"return", "on">>), s1, Lit("shareholder"),
                  Opt(Lit("s")), s1, Lit("equity"), s0,
                  Opt(Cat(<<Lit("of"), s1>>)), percent, s0,
                  Lit("percent")>>)>>,
         company_name |-> <<
            Cat(<<W(<<"issuer", "registrant", "company">>), Lit(":"), s0,
                  name>>),
            Cat(<<Opt(Cat(<<Lit("the"), s1>>)), name, s1,
                  Alt(<<Phrase(<<"is", "a">>), Lit("operates"),
                        Lit("provides"), Lit("offers")>>)>>),
            Cat(<<Bol, name, s1, W(<<"has", "was", "is", "will">>)>>),
            Cat(<<W(<<"about", "regarding">>), s1, name>>),
            Cat(<<name, s1, W(<<"announced", "reported", "filed">>)>>),
            Cat(<<W(<<"name", "entity">>), Lit(":"), s0, name>>),
            Cat(<<W(<<"issuer", "registrant">>), Lit(":"), s0, name>>),
            Cat(<<W(<<"company", "corporation", "entity">>), s1,
                  Lit("name:"), s0, name>>)>>]

(***************************************************************************)
(* TargetedPatternMatcher.extract_with_patterns.                           *)
(***************************************************************************)

RECURSIVE Flatten(_)
Flatten(lists) ==
    IF lists = <<>> THEN <<>> ELSE Head(lists) \o Flatten(Tail(lists))

\* match.group(1).strip()
GroupText(text, m) == Strip(SubSeq(text, m.gs, m.ge - 1))

\* The number of characters of context taken on each side of a match.
ContextWindow == 200

\* text[max(0, match.start() - 200): match.end() + 200]
MatchContext(text, m) ==
    LET first == IF m.start - ContextWindow > 1
                     THEN m.start - ContextWindow ELSE 1
        last == IF m.end - 1 + ContextWindow < Len(text)
                    THEN m.end - 1 + ContextWindow ELSE Len(text)
    IN  SubSeq(text, first, last)

\* _detect_company_context: re.search there is given no flag, so ^ is the
\* start of the text only.  No document of the model matches a
\* stock_symbol rule, and the business indicators are not read by the
\* branches modelled here.
_detect_company_context(text, document_name) ==
    LET rules == pattern_library["company_name"]
        found(i) == FindIter(rules[i], Lower(text), 1, FALSE)
        hits == {i \in 1..Len(rules) : found(i) # <<>>}
        first == CHOOSE i \in hits : \A j \in hits : i <= j
    IN  [document_name |-> Lower(document_name),
         company_name |-> IF hits = {} THEN ""
                          ELSE GroupText(text, found(first)[1]),
         stock_symbol |-> ""]

\* _enhanced_validate_company_field for info_type 'company_name'
ValidCompanyName(val) ==
    LET value_lower == Lower(val)
    IN  /\ Len(val) >= 3
        /\ AnyIn(<<"inc", "corp", "corporation", "llc", "ltd", "company",
                   "co", "limited">>, value_lower)
        /\ ~AnyIn(<<"pursuant", "section", "regulation", "rule", "act",
                    "code", "financial", "consolidated", "statement",
                    "disclosure", "securities", "exchange", "commission",
                    "sec", "form", "quarterly", "annual", "report",
                    "filing">>, value_lower)
        /\ Len(val) <= 100
        /\ IsUpper(Char(val, 1))

\* str.title(): a letter is upper case after a non-letter, lower case
\* after a letter
RECURSIVE Title(_, _)
Title(s, afterLetter) ==
    IF s = "" THEN ""
    ELSE LET c == Char(s, 1)
             isLetter == IsUpper(c) \/ IsIn(c, LowerAlpha)
         IN  (IF afterLetter THEN Lower(c) ELSE Upper(c))
             \o Title(SubSeq(s, 2, Len(s)), isLetter)

\* _enhanced_clean_company_field for info_type 'company_name'
CleanCompanyName(val) ==
    LET stripped == Strip(val)
        lower == Lower(stripped)
        \* re.sub(r'^(The\s+|A\s+)', '', value, flags=re.IGNORECASE)
        article == IF Len(lower) >= 4 /\ SubSeq(lower, 1, 3) = "the"
                      /\ Char(lower, 4) \in Whitespace THEN 3
                   ELSE IF Len(lower) >= 2 /\ Char(lower, 1) = "a"
                      /\ Char(lower, 2) \in Whitespace THEN 1
                   ELSE 0
        bare == IF article = 0 THEN stripped
                ELSE Strip(SubSeq(stripped, article + 1, Len(stripped)))
        islower == /\ \E i \in 1..Len(bare) : IsIn(Char(bare, i), LowerAlpha)
                   /\ \A i \in 1..Len(bare) : ~IsUpper(Char(bare, i))
        cased == IF islower THEN Title(bare, FALSE) ELSE bare
    IN  RStripSet(cased, {".", ",", ";", ":"})

NormalizedFinancialFields ==
    {"revenue", "net_income", "total_assets", "total_liabilities",
     "market_cap"}

NormalizedPercentageFields ==
    {"net_margin", "operating_margin", "gross_margin"}

\* The candidates of one match of a rule of financial_patterns: none or one.
FinancialCandidate(text, document_name, company_context, metric_type, pattern_idx, m) ==
    LET raw_value == GroupText(text, m)
        ctx == MatchContext(text, m)
        normalized ==
            IF metric_type \in NormalizedFinancialFields
                THEN normalize_financial_value(raw_value, ctx)
            ELSE IF metric_type \in NormalizedPercentageFields
                THEN normalize_percentage(raw_value)
            ELSE Some(raw_value)
    IN  IF Len(raw_value) < 2 \/ ~normalized.some THEN <<>>
        ELSE <<ExtractedData(metric_type, normalized.str,
                   _calculate_enhanced_confidence(metric_type, ctx,
                       pattern_idx, company_context),
                   document_name, pattern_idx)>>

\* The candidates of one match of a company_name rule: none or one.
CompanyCandidate(text, document_name, company_context, info_type, pattern_idx, m) ==
    LET raw_value == GroupText(text, m)
        cleaned_value == CleanCompanyName(raw_value)
    IN  IF ~ValidCompanyName(raw_value) \/ cleaned_value = "" THEN <<>>
        ELSE <<ExtractedData(info_type, cleaned_value,
                   _calculate_enhanced_confidence(info_type,
                       SubSeq(text, m.start, m.end - 1), pattern_idx,
                       company_context),
                   document_name, pattern_idx)>>

ModelledFinancialFields ==
    <<"revenue", "net_margin", "operating_income", "roe">>

extract_with_patterns(text, document_name) ==
    LET company_context == _detect_company_context(text, document_name)
        lower == Lower(text)
        OfRule(field, i, company) ==
            LET ms == FindIter(pattern_library[field][i], lower, 1, company)
            IN  Flatten([j \in 1..Len(ms) |->
                    IF company
                    THEN CompanyCandidate(text, document_name,
                             company_context, field, i - 1, ms[j])
                    ELSE FinancialCandidate(text, document_name,
                             company_context, field, i - 1, ms[j])])
        OfField(field, company) ==
            Flatten([i \in 1..Len(pattern_library[field]) |->
                        OfRule(field, i, company)])
    IN  Flatten([f \in 1..Len(ModelledFinancialFields) |->
                    OfField(ModelledFinancialFields[f], FALSE)])
        \o OfField("company_name", TRUE)

(***************************************************************************)
(* SpecExtract: one call of extract_with_patterns on one document.  The    *)
(* text of a document is one or two lines of Lines; no rule of the pattern *)
(* library outside pattern_library matches such a text.                    *)
(***************************************************************************)

Lines ==
    {"Blue Bird Corp operates", "About Apple Inc.", "Apple Inc. filed",
     "Operating income 1,234 million", "Operating income ..",
     "ROE of 15.2%", "Revenue 1,234 million", "Revenue ..",
     "Net margin of 5.5%", "Net margin of 7%"}

Texts ==
    Lines \cup {p[1] \o "\n" \o p[2] :
                  p \in {q \in Lines \X Lines : q[1] # q[2]}}

DocumentNames == {"bluebird_10k.pdf", "report.pdf"}

ExtractInit ==
    /\ NormIdle /\ ConsIdle /\ ConfIdle /\ MergeIdle /\ RunIdle
    /\ document = <<>>
    /\ returned_data = <<>>

ExtractWithPatterns ==
    /\ document = <<>>
    /\ \E text \in Texts, document_name \in DocumentNames :
        /\ document' = [text |-> text, document_name |-> document_name]
        /\ returned_data' = extract_with_patterns(text, document_name)
    /\ UNCHANGED <<normVars, consVars, confVars, mergeVars, runVars>>

ExtractNext == ExtractWithPatterns

SpecExtract == ExtractInit /\ [][ExtractNext]_vars

(***************************************************************************)
(* Claims about extraction, checked under SpecExtract.                     *)
(***************************************************************************)

\* The fields of the pattern library whose rules capture an amount of
\* money, and those whose rules capture a percentage.
AmountFieldsOfLibrary ==
    {"revenue", "net_income", "total_assets", "total_liabilities",
     "market_cap", "operating_income", "operating_cash_flow",
     "shareholders_equity", "gross_profit", "current_assets",
     "current_liabilities", "total_debt", "working_capital",
     "enterprise_value", "ebitda", "free_cash_flow"}

PercentageFieldsOfLibrary ==
    {"net_margin", "operating_margin", "gross_margin", "roe", "roa",
     "roic", "dividend_yield"}

\* '$1.23B', '-$5.00M', '$1,234': what the amount normalizer returns
IsNormalizedAmount(v) ==
    \/ Len(v) >= 2 /\ Char(v, 1) = "$" /\ IsDigit(Char(v, 2))
    \/ Len(v) >= 3 /\ SubSeq(v, 1, 2) = "-$" /\ IsDigit(Char(v, 3))

\* '5.50%': what the percentage normalizer returns
IsNormalizedPercentage(v) ==
    /\ Len(v) >= 5
    /\ Char(v, Len(v)) = "%"
    /\ Char(v, Len(v) - 3) = "."
    /\ \A i \in (1..(Len(v) - 1)) \ {Len(v) - 3} : IsDigit(Char(v, i))

\* C5: every candidate extract_with_patterns returns for a financial-amount
\* field or a percentage field of the pattern library carries a normalized
\* value, never the raw matched text.
C5_CandidatesAreNormalized ==
    document # <<>> =>
        \A i \in 1..Len(returned_data) :
            LET item == returned_data[i]
            IN  /\ item.field_name \in AmountFieldsOfLibrary
                       => IsNormalizedAmount(item.value)
                /\ item.field_name \in PercentageFieldsOfLibrary
                       => IsNormalizedPercentage(item.value)

\* The document belongs to the known entity Blue Bird.
is_bluebird(text, document_name) ==
    \/ Contains(Lower(document_name), "bluebird")
    \/ Contains(Lower(document_name), "blbd")
    \/ Contains(Lower(text), "blue bird")

\* C9: when the document is classified as belonging to a known entity, no
\* company_name candidate whose value lacks that entity's name fragment is
\* returned.
C9_OnlyEntityCompanyNames ==
    (document # <<>> /\ is_bluebird(document.text, document.document_name))
        => \A i \in 1..Len(returned_data) :
               returned_data[i].field_name = "company_name"
                   => Contains(Lower(returned_data[i].value), "blue bird")

(***************************************************************************)
(* automation_engine.py: the ticker derivation of the legacy engine.  A    *)
(* dict is the list of its items, <<key, value>>, in iteration order.      *)
(***************************************************************************)

\* re.sub(r'[^A-Z]', '', re.sub(r'^(NASDAQ|NYSE)[:.\s\-]*', '',
\*                              raw_symbol.strip().upper()))
CleanStockSymbol(raw_symbol) ==
    LET symbol == Upper(Strip(raw_symbol))
        rest == IF Len(symbol) >= 6 /\ SubSeq(symbol, 1, 6) = "NASDAQ"
                    THEN SubSeq(symbol, 7, Len(symbol))
                ELSE IF Len(symbol) >= 4 /\ SubSeq(symbol, 1, 4) = "NYSE"
                    THEN SubSeq(symbol, 5, Len(symbol))
                ELSE symbol
    IN  IF rest = symbol THEN KeepUpper(symbol)
        ELSE KeepUpper(LStripSet(rest, {":", ".", "-"} \cup Whitespace))

\* re.search(r'(?:NASDAQ|NYSE)[:.\s\-]*([A-Z]{2,5})', text): group 1 of the
\* leftmost match, "" when there is none.  The separators are no letters,
\* so giving some of them back never helps the match.
ExchangeTicker(text) ==
    LET n == Len(text)
        AfterName(p) ==
            IF p + 5 <= n /\ SubSeq(text, p, p + 5) = "NASDAQ" THEN p + 6
            ELSE IF p + 3 <= n /\ SubSeq(text, p, p + 3) = "NYSE" THEN p + 4
            ELSE 0
        IsSeparator(c) == c \in {":", ".", "-"} \cup Whitespace
        AfterSeparators(q) ==
            IF \E j \in q..n : ~IsSeparator(Char(text, j))
                THEN CHOOSE j \in q..n :
                         /\ ~IsSeparator(Char(text, j))
                         /\ \A k \in q..(j - 1) : IsSeparator(Char(text, k))
                ELSE n + 1
        Letters(q) ==
            LET len == CHOOSE l \in 0..5 :
                           /\ q + l - 1 <= n
                           /\ \A k \in q..(q + l - 1) : IsUpper(Char(text, k))
                           /\ l = 5 \/ q + l > n \/ ~IsUpper(Char(text, q + l))
            IN  SubSeq(text, q, q + len - 1)
        GroupAt(p) ==
            IF AfterName(p) = 0 THEN ""
            ELSE Letters(AfterSeparators(AfterName(p)))
        starts == {p \in 1..n : Len(GroupAt(p)) >= 2}
    IN  IF starts = {} THEN ""
        ELSE GroupAt(CHOOSE p \in starts : \A r \in starts : p <= r)

\* Every value of the modelled maps is a string.
extract_possible_ticker(items) ==
    LET keys == {items[i][1] : i \in 1..Len(items)}
        ValueOf(key) ==
            IF key \in keys
                THEN items[CHOOSE i \in 1..Len(items) : items[i][1] = key][2]
                ELSE ""
        direct == IF "stock_symbol" \in keys
                      THEN CleanStockSymbol(ValueOf("stock_symbol")) ELSE ""
        Scanned(i) ==
            LET key == Lower(items[i][1])
                found == ExchangeTicker(Upper(items[i][2]))
                symbol == KeepUpper(Upper(items[i][2]))
            IN  IF found # "" THEN found
                ELSE IF /\ Contains(key, "ticker") \/ Contains(key, "symbol")
                        /\ Len(symbol) \in 1..5
                     THEN symbol
                ELSE ""
        hits == {i \in 1..Len(items) : Scanned(i) # ""}
        company_name == Lower(ValueOf("company_name"))
    IN  IF "stock_symbol" \in keys /\ Len(direct) \in 1..5 THEN direct
        ELSE IF hits # {}
            THEN Scanned(CHOOSE i \in hits : \A j \in hits : i <= j)
        ELSE IF Contains(company_name, "doubleverify") THEN "DV"
        ELSE IF Contains(company_name, "blue bird") THEN "BLBD"
        ELSE IF Contains(company_name, "apple") THEN "AAPL"
        ELSE IF Contains(company_name, "microsoft") THEN "MSFT"
        ELSE IF Contains(company_name, "amazon") THEN "AMZN"
        ELSE "UNKNOWN"

(***************************************************************************)
(* SpecTicker: one call of extract_possible_ticker on one map.             *)
(***************************************************************************)

\* What a map can hold under a key: Missing is no key.
TickerValues ==
    [stock_symbol |-> {Missing, "NASDAQ:AAPL", "dv", "TOOLONGTICKER",
                       "NASDAQ:TOOLONGTICKER", "nyse: f", "n/a"},
     company_name |-> {Missing, "Blue Bird Corporation", "Acme Tools",
                       "Apple Inc (NASDAQ: AAPL)"},
     industry |-> {Missing, "Software", "Listed on NYSE: ACM"},
     ticker_note |-> {Missing, "msft", "not listed"}]

\* Every map of TickerValues in every order of its keys.
TickerMaps ==
    UNION { { [i \in 1..Cardinality(DOMAIN d) |-> <<order[i], d[order[i]]>>] :
                  order \in {o \in [1..Cardinality(DOMAIN d) -> DOMAIN d] :
                                 \A i, j \in DOMAIN o : o[i] = o[j] => i = j} }
            : d \in DictsOf(TickerValues) }

TickerInit ==
    /\ NormIdle /\ ConsIdle /\ ConfIdle /\ MergeIdle /\ ExtractIdle
    /\ ticker = ""
    /\ ordered_data = <<>>
    /\ source_folder = <<>>
    /\ lookups = <<>>
    /\ report = <<>>
    /\ runPc = "call"

ExtractPossibleTicker ==
    /\ runPc = "call"
    /\ \E consolidated_items \in TickerMaps :
           /\ ordered_data' = consolidated_items
           /\ ticker' = extract_possible_ticker(consolidated_items)
    /\ runPc' = "returned"
    /\ UNCHANGED <<source_folder, lookups, report>>
    /\ UNCHANGED <<normVars, consVars, confVars, mergeVars, extractVars>>

SpecTicker == TickerInit /\ [][ExtractPossibleTicker]_vars

(***************************************************************************)
(* Claims about the ticker derivation, checked under SpecTicker.           *)
(***************************************************************************)

StockSymbolOf(items) ==
    items[CHOOSE i \in 1..Len(items) : items[i][1] = "stock_symbol"][2]

HasStockSymbol(items) == \E i \in 1..Len(items) : items[i][1] = "stock_symbol"

\* C15: a stock_symbol whose cleaned form has 1 to 5 letters is the ticker;
\* one whose cleaned form has more than 5 letters is rejected: the ticker
\* is neither the cleaned form nor a part of it.
C15_LongStockSymbolRejected ==
    (runPc = "returned" /\ HasStockSymbol(ordered_data)) =>
        LET cleaned == CleanStockSymbol(StockSymbolOf(ordered_data))
        IN  /\ Len(cleaned) \in 1..5 => ticker = cleaned
            /\ Len(cleaned) > 5 => ~Contains(cleaned, ticker)

\* C16: two maps with the same key/value pairs give the same ticker,
\* whatever the order their items are listed in.
C16_TickerDependsOnContentsOnly ==
    runPc = "returned" =>
        \A other \in TickerMaps :
            {other[i] : i \in 1..Len(other)}
                    = {ordered_data[i] : i \in 1..Len(ordered_data)}
                => extract_possible_ticker(other) = ticker

(***************************************************************************)
(* automation_engine.py: process_documents of the legacy engine.           *)
(***************************************************************************)

\* Step 2: the fields in the order of their first candidate, each with the
\* value of its first most confident candidate (max returns the first).
LegacyConsolidate(extracted_data) ==
    LET n == Len(extracted_data)
        IsFirstOfField(i) ==
            \A j \in 1..(i - 1) :
                extracted_data[j].field_name # extracted_data[i].field_name
        Best(field) ==
            CHOOSE i \in 1..n :
                /\ extracted_data[i].field_name = field
                /\ \A j \in 1..n :
                       extracted_data[j].field_name = field =>
                           \/ extracted_data[j].confidence
                                  < extracted_data[i].confidence
                           \/ /\ extracted_data[j].confidence
                                     = extracted_data[i].confidence
                              /\ i <= j
        fields[i \in 0..n] ==
            IF i = 0 THEN <<>>
            ELSE IF IsFirstOfField(i)
                 THEN Append(fields[i - 1],
                             <<extracted_data[i].field_name,
                               extracted_data[Best(extracted_data[i].field_name)].value>>)
                 ELSE fields[i - 1]
    IN  fields[n]

\* Step 3: every entry of field_mappings maps a field to itself, so a
\* template field gets the consolidated value of its own name, or ''.
MapToTemplate(template_fields, items) ==
    [ template_field \in template_fields |->
        IF \E i \in 1..Len(items) : items[i][1] = template_field
        THEN items[CHOOSE i \in 1..Len(items) : items[i][1] = template_field][2]
        ELSE "" ]

\* A report that lists as unpopulated every key of the data whose value is
\* empty, template field or not.
ReportOfAllEmptyKeys(folder, enhanced) ==
    [processing_date |-> "<now>",
     source_folder |-> "<source_folder>",
     template_path |-> "<template_path>",
     output_files |-> "<files written by populate_template>",
     documents_processed |->
         Cardinality({i \in 1..Len(folder.files) :
                          Len(folder.files[i]) >= 4 /\ SubSeq(folder.files[i], Len(folder.files[i]) - 3, Len(folder.files[i])) = ".txt"}),
     fields_populated |-> Cardinality({k \in DOMAIN enhanced : enhanced[k] # ""}),
     total_template_fields |-> Cardinality(folder.template_fields),
     mapped_data |-> enhanced,
     unpopulated_fields |-> {f \in DOMAIN enhanced : Get(enhanced, f) = ""}]

\* Step 8.  The date, the paths and the output files are not modelled;
\* unpopulated_fields is a list without repetition, kept as a set.
ProcessingReport(folder, enhanced) ==
    [processing_date |-> "<now>",
     source_folder |-> "<source_folder>",
     template_path |-> "<template_path>",
     output_files |-> "<files written by populate_template>",
     documents_processed |->
         Cardinality({i \in 1..Len(folder.files) :
                          Len(folder.files[i]) >= 4 /\ SubSeq(folder.files[i], Len(folder.files[i]) - 3, Len(folder.files[i])) = ".txt"}),
     fields_populated |-> Cardinality({k \in DOMAIN enhanced : enhanced[k] # ""}),
     total_template_fields |-> Cardinality(folder.template_fields),
     mapped_data |-> enhanced,
     unpopulated_fields |-> {f \in folder.template_fields : Get(enhanced, f) = ""}]

(***************************************************************************)
(* SpecRun: one run of the legacy process_documents.  The folder is        *)
(* missing or lists up to two readable documents and a file of another     *)
(* format, in the order glob yields them.                                  *)
(***************************************************************************)

RunInit ==
    /\ NormIdle /\ ConfIdle /\ MergeIdle /\ ExtractIdle
    /\ all_extracted_data = <<>>
    /\ consolidated = <<>>
    /\ processed_files = {}
    /\ consPc = "idle"
    /\ attempts = <<>>
    /\ processing_stats = NewProcessingStats
    /\ results = <<>>
    /\ ticker = ""
    /\ ordered_data = <<>>
    /\ lookups = <<>>
    /\ report = <<>>
    /\ runPc = "scan"
    /\ \E exists \in BOOLEAN :
       \E files \in {<<>>, <<"a.txt">>, <<"a.txt", "b.txt">>,
                     <<"b.txt", "a.txt">>, <<"notes.md", "a.txt">>} :
       \E template_fields \in {{"company_name", "stock_symbol", "revenue"},
                               {"company_name", "market_cap", "net_margin"}} :
           /\ ~exists => files = <<>>
           /\ source_folder = [exists |-> exists, files |-> files,
                               template_fields |-> template_fields]

\* One pass of the loop of step 1 over the next file glob yields.
ProcessFile ==
    /\ runPc = "scan"
    /\ Len(attempts) < Len(source_folder.files)
    /\ LET file_path == source_folder.files[Len(attempts) + 1]
           shapes == { <<"stock_symbol", "DV", 80>>,
                       <<"company_name", "Blue Bird Corporation", 80>>,
                       <<"company_name", "Acme Tools", 80>>,
                       <<"revenue", "$1.20B", 90>>,
                       <<"revenue", "$950.00M", 80>> }
           lists == UNION { [1..n -> shapes] : n \in 0..2 }
       IN  IF SubSeq(file_path, Len(file_path) - 3, Len(file_path)) # ".txt"
           THEN /\ attempts' = Append(attempts,
                       [file |-> file_path, outcome |-> "skipped",
                        extracted_data |-> <<>>])
                /\ UNCHANGED all_extracted_data
           ELSE \/ /\ attempts' = Append(attempts,
                          [file |-> file_path, outcome |-> "raised",
                           extracted_data |-> <<>>])
                   /\ UNCHANGED all_extracted_data
                \/ \E cs \in lists :
                       LET extracted_data ==
                               [ i \in 1..Len(cs) |->
                                   ExtractedData(cs[i][1], cs[i][2], cs[i][3],
                                                 file_path, 0) ]
                       IN  /\ all_extracted_data' =
                                  all_extracted_data \o extracted_data
                           /\ attempts' = Append(attempts,
                                  [file |-> file_path, outcome |-> "extracted",
                                   extracted_data |-> extracted_data])
    /\ UNCHANGED <<consolidated, processed_files, consPc>>
    /\ UNCHANGED <<processing_stats, results>>
    /\ UNCHANGED <<normVars, confVars, mergeVars, extractVars, runVars>>

\* Steps 2 to 8, after the loop: consolidation, template mapping, ticker
\* derivation, enrichment, generation_date, report.
FinishRun ==
    /\ runPc = "scan"
    /\ Len(attempts) = Len(source_folder.files)
    /\ ordered_data' = LegacyConsolidate(all_extracted_data)
    /\ consolidated_data' =
           MapToTemplate(source_folder.template_fields, ordered_data')
    /\ ticker' = extract_possible_ticker(ordered_data')
    /\ LET symbol == YfinanceSymbol(consolidated_data', ticker')
           outcomes ==
               {[kind |-> "raises"],
                [kind |-> "returns", data |-> <<>>],
                [kind |-> "returns",
                 data |-> [stock_symbol |-> symbol,
                           company_name |-> "Blue Bird Corp",
                           market_cap |-> "$2.50B",
                           net_margin |-> "7.25%",
                           employees |-> "1,800"]],
                [kind |-> "returns",
                 data |-> [stock_symbol |-> symbol,
                           company_name |-> "",
                           market_cap |-> "N/A",
                           net_margin |-> "N/A",
                           employees |-> ""]]}
       IN  /\ yfinance_data' \in IF Len(symbol) \in 1..5 THEN outcomes
                                 ELSE {[kind |-> "not made"]}
           /\ lookups' = IF yfinance_data'.kind = "not made" THEN lookups
                         ELSE Append(lookups, symbol)
    /\ enhanced_data' =
           LET returned == enhance_with_yfinance_data(consolidated_data',
                                                      ticker', yfinance_data')
           IN  [k \in DOMAIN returned \cup {"generation_date"} |->
                    IF k = "generation_date" THEN "<now>" ELSE returned[k]]
    /\ report' = ProcessingReport(source_folder, enhanced_data')
    /\ runPc' = "done"
    /\ mergePc' = mergePc
    /\ UNCHANGED source_folder
    /\ UNCHANGED <<normVars, consVars, confVars, extractVars>>

SpecRun == RunInit /\ [][ProcessFile \/ FinishRun]_vars

(***************************************************************************)
(* Claims about the legacy run, checked under SpecRun.                     *)
(***************************************************************************)

\* C14: a run on a source folder that does not exist processes no
\* document, consolidates, enriches and populates nothing, and writes no
\* report.
C14_MissingFolderFailsTheBatch ==
    ~source_folder.exists =>
        /\ DOMAIN report = {}
        /\ DOMAIN enhanced_data = {}
        /\ lookups = <<>>

\* C17: the lookup is made at most once, after the loop, with the ticker
\* that extract_possible_ticker derives from the consolidated map; when
\* that ticker is 'UNKNOWN' no lookup is made and the enrichment step
\* passes the mapped data on unchanged.
C17_OneLookupWithDerivedTicker ==
    /\ runPc = "scan" => lookups = <<>>
    /\ runPc = "done" =>
           /\ ticker = extract_possible_ticker(ordered_data)
           /\ lookups = IF ticker = "UNKNOWN" THEN <<>> ELSE <<ticker>>
           /\ ticker = "UNKNOWN" =>
                  /\ DOMAIN enhanced_data =
                         DOMAIN consolidated_data \cup {"generation_date"}
                  /\ \A f \in DOMAIN consolidated_data :
                         enhanced_data[f] = consolidated_data[f]

\* The documents yield stock_symbol 'DV' and the one lookup is for 'DV'.
C17_Witness ==
    /\ runPc = "done"
    /\ \E i \in 1..Len(ordered_data) : ordered_data[i] = <<"stock_symbol", "DV">>
    /\ ticker = "DV"
    /\ lookups = <<"DV">>
    /\ yfinance_data.kind = "returns"

\* C18: the report has the five keys of the summary, and its
\* unpopulated_fields are exactly the template fields whose value in its
\* mapped_data is missing or empty.
C18_UnpopulatedFieldsAreTheEmptyTemplateFields ==
    runPc = "done" =>
        /\ {"documents_processed", "fields_populated",
            "total_template_fields", "mapped_data", "unpopulated_fields"}
               \subseteq DOMAIN report
        /\ \A f \in source_folder.template_fields :
               f \in report.unpopulated_fields
                   <=> Get(report.mapped_data, f) = ""
        /\ report.unpopulated_fields \subseteq source_folder.template_fields

\* A run with one template field populated from the documents, one left
\* empty, and an external key that is empty and no template field.
C18_Witness ==
    /\ runPc = "done"
    /\ Get(report.mapped_data, "company_name") = "Blue Bird Corporation"
    /\ report.unpopulated_fields = {"revenue"}
    /\ "employees" \in DOMAIN report.mapped_data
    /\ report.mapped_data["employees"] = ""

\* C28: in the report, fields_populated and the number of unpopulated
\* fields add up to total_template_fields, and fields_populated does not
\* exceed it.
C28_PopulatedAndUnpopulatedAddUp ==
    runPc = "done" =>
        /\ report.fields_populated + Cardinality(report.unpopulated_fields)
               = report.total_template_fields
        /\ report.fields_populated <= report.total_template_fields

(***************************************************************************)
(* Several calls of process_documents on one EnhancedAutomationEngine of   *)
(* enhanced_automation_engine.py.  The engine owns one dict,               *)
(* self.processing_stats, built in __init__; every result the method       *)
(* returns holds that dict itself under 'processing_stats', not a copy.    *)
(* So a write to the dict shows in every result returned so far: results   *)
(* keeps one record per call, and a call rewrites the processing_stats of  *)
(* all of them.  A result also records the folder it was asked to process  *)
(* (whether it exists, and the outcome of each of its documents), which    *)
(* the code does not keep.                                                 *)
(***************************************************************************)
MaxRuns == 2
MaxDocuments == 2

StatsInit ==
    /\ NormIdle /\ ConfIdle /\ MergeIdle /\ ExtractIdle /\ RunIdle
    /\ all_extracted_data = <<>>
    /\ consolidated = <<>>
    /\ processed_files = {}
    /\ consPc = "engine"
    /\ attempts = <<>>
    /\ processing_stats = NewProcessingStats
    /\ results = <<>>

\* One call of process_documents.  A missing folder raises before the
\* counters are reset; otherwise they are reset and the loop counts each
\* document; a step after the loop may raise.  Both return statements put
\* self.processing_stats into the result.
ProcessDocuments ==
    \E exists \in BOOLEAN, raises_after_loop \in BOOLEAN :
    \E files \in UNION { [1..n -> {"extracted", "no text", "raised"}]
                         : n \in 0..MaxDocuments } :
        LET extracted == { i \in 1..Len(files) : files[i] = "extracted" }
            Details[i \in 0..Len(files)] ==
                IF i = 0 THEN <<>>
                ELSE IF i \in extracted
                     THEN Append(Details[i - 1], [file |-> i, extractions |-> 1])
                     ELSE Details[i - 1]
        IN  /\ consPc = "engine"
            /\ Len(results) < MaxRuns
            /\ ~exists => files = <<>> /\ ~raises_after_loop
            /\ processing_stats' =
                   IF ~exists THEN processing_stats
                   ELSE [total_documents |-> Len(files),
                         successful_extractions |-> Cardinality(extracted),
                         failed_extractions |->
                             Len(files) - Cardinality(extracted),
                         extraction_details |-> Details[Len(files)]]
            /\ results' =
                   [ i \in 1..(Len(results) + 1) |->
                       IF i <= Len(results)
                       THEN [results[i] EXCEPT
                                !.processing_stats = processing_stats']
                       ELSE [success |-> exists /\ ~raises_after_loop,
                             folder |-> [exists |-> exists, files |-> files],
                             processing_stats |-> processing_stats'] ]
            /\ UNCHANGED <<all_extracted_data, consolidated, processed_files,
                           consPc, attempts>>
            /\ UNCHANGED <<normVars, confVars, mergeVars, extractVars, runVars>>

SpecStats == StatsInit /\ [][ProcessDocuments]_vars

\* the documents of the folder a result was returned for that ended so
OfOutcome(r, outcomes) ==
    Cardinality({ i \in 1..Len(r.folder.files) : r.folder.files[i] \in outcomes })

\* C25: the processing_stats of every result returned so far count the
\* documents of the run that returned it and no others, a run on a missing
\* folder (which has no documents) included.
C25_ResultStatsAreOfItsOwnRun ==
    \A i \in 1..Len(results) :
        LET r == results[i]
        IN  /\ r.processing_stats.total_documents = Len(r.folder.files)
            /\ r.processing_stats.successful_extractions
                   = OfOutcome(r, {"extracted"})
            /\ r.processing_stats.failed_extractions
                   = OfOutcome(r, {"no text", "raised"})
            /\ Len(r.processing_stats.extraction_details)
                   = OfOutcome(r, {"extracted"})

(***************************************************************************)
(* TargetedPatternMatcher._enhanced_validate_company_field, the branch for *)
(* info_type 'industry' and 'primary_business'.  One call per behaviour.   *)
(***************************************************************************)
\* the two lists of the branch, in the code's order
BusinessTerms ==
    [bad_phrases |->
         <<"risk that", "could be construed", "pursuant to", "section",
           "regulation", "rule", "act", "code", "disclosure", "commitment",
           "lease", "obligation", "contingent", "financial condition",
           "results of operations", "consolidated", "goodwill", "intangible",
           "amortization", "depreciation", "impairment">>,
     keywords |->
         <<"platform", "software", "technology", "digital", "advertising",
           "measurement", "analytics", "designer", "manufacturer", "provider",
           "provides", "operates", "develops", "offers", "services",
           "independent", "leader", "school bus", "buses">>]

\* _enhanced_validate_company_field for info_type 'industry' or
\* 'primary_business': 'x in value_lower' is a substring test
ValidBusinessDescription(val) ==
    LET value_lower == Lower(val)
    IN  /\ Len(val) >= 3
        /\ ~AnyIn(BusinessTerms.bad_phrases, value_lower)
        /\ AnyIn(BusinessTerms.keywords, value_lower)

ValidateCompanyField ==
    \E info_type \in {"industry", "primary_business"} :
        LET words == {"software", "platform", "provider", "manufacturer",
                      "buses", "lease", "Section", "interactive", "of"}
            phrases == words
                \cup { a \o " " \o b : a \in words, b \in words }
                \cup { a \o " " \o b \o " " \o c :
                           a \in words, b \in words, c \in words }
                \cup {"independent designer and manufacturer of school buses",
                      "software platform provider", "it", "tv", "",
                      "Digital advertising; see Item 1A"}
        IN  \E raw_value \in phrases :
                /\ op = "none"
                /\ value' = raw_value
                /\ context' = info_type
                /\ result' = ValidBusinessDescription(raw_value)
                /\ op' = "validate"
                /\ UNCHANGED <<consVars, confVars, mergeVars, extractVars,
                               runVars>>

SpecValidate == NormInit /\ [][ValidateCompanyField]_vars

\* word is in s as a word or phrase of its own: no letter stands before or
\* after it
HasWord(s, word) ==
    \E i \in 1..(Len(s) - Len(word) + 1) :
        /\ SubSeq(s, i, i + Len(word) - 1) = word
        /\ i > 1 => ~IsIn(Char(s, i - 1), LowerAlpha)
        /\ i + Len(word) <= Len(s) => ~IsIn(Char(s, i + Len(word)), LowerAlpha)

\* C30: an industry or primary_business value of at least 3 characters
\* that holds a recognized business keyword and none of the blacklisted
\* words or phrases is accepted.
C30_KeywordDescriptionAccepted ==
    op = "validate" =>
        ( ( /\ Len(value) >= 3
            /\ \E i \in 1..Len(BusinessTerms.keywords) :
                   HasWord(Lower(value), BusinessTerms.keywords[i])
            /\ \A i \in 1..Len(BusinessTerms.bad_phrases) :
                   ~HasWord(Lower(value), BusinessTerms.bad_phrases[i]) )
          => result = TRUE )

(***************************************************************************)
(* FinancialDataExtractor.extract_data of data_extraction.py: the          *)
(* classification of the document and the filtering of the company_name    *)
(* and stock_symbol matches.  A text is made of lines taken from a fixed   *)
(* set of sentences; CompanyMatches gives, for each sentence, the matches  *)
(* the rules of company_patterns find in it.  One call per behaviour.      *)
(***************************************************************************)
MaxLines == 3

\* The known entities: what classifies a document as the entity (a part of
\* the lower-cased document name, or a phrase of the text, lower-cased for
\* Blue Bird only), and what its candidates must hold.
KnownEntities ==
    << [entity |-> "bluebird", in_name |-> <<"bluebird", "blbd">>,
        in_text |-> "blue bird", lower_text |-> TRUE,
        fragment |-> "blue bird", ticker |-> "BLBD"],
       [entity |-> "doubleverify", in_name |-> <<"doubleverify", "dv">>,
        in_text |-> "DoubleVerify", lower_text |-> FALSE,
        fragment |-> "doubleverify", ticker |-> "DV"],
       [entity |-> "apple", in_name |-> <<"apple", "aapl">>,
        in_text |-> "Apple Inc", lower_text |-> FALSE,
        fragment |-> "apple", ticker |-> "AAPL"],
       [entity |-> "microsoft", in_name |-> <<"microsoft", "msft">>,
        in_text |-> "Microsoft Corporation", lower_text |-> FALSE,
        fragment |-> "microsoft", ticker |-> "MSFT"],
       [entity |-> "amazon", in_name |-> <<"amazon", "amzn">>,
        in_text |-> "Amazon.com", lower_text |-> FALSE,
        fragment |-> "amazon", ticker |-> "AMZN"] >>

\* is_bluebird, is_doubleverify, is_apple, is_microsoft, is_amazon: the
\* places in KnownEntities of the flags that are set
ClassifiedAs(text, document_name) ==
    LET \* text.lower(), taken by halves
        RECURSIVE LowerText(_)
        LowerText(s) ==
            IF Len(s) <= 32 THEN Lower(s)
            ELSE LowerText(SubSeq(s, 1, Len(s) \div 2))
                     \o LowerText(SubSeq(s, Len(s) \div 2 + 1, Len(s)))
    IN  { e \in 1..Len(KnownEntities) :
            \/ AnyIn(KnownEntities[e].in_name, Lower(document_name))
            \/ Contains(IF KnownEntities[e].lower_text
                            THEN LowerText(text) ELSE text,
                        KnownEntities[e].in_text) }

\* match.group(1).strip() of every match of the rules of info_type in the
\* text, in the order of the loops: by rule, then by position in the text.
\* A match is <<rule, line, raw_value>>.
CompanyMatches(lines, info_type) ==
    LET found ==
            [company_name |->
               [l \in 1..Len(lines) |->
                  CASE lines[l] = "Blue Bird Corporation (NASDAQ Global Market: BLBD) builds school buses."
                         -> {<<2, l, "Blue Bird Corporation">>,
                             <<7, l, "Blue Bird Corporation">>}
                    [] lines[l] = "Apple Inc. (NASDAQ: AAPL) is a customer."
                         -> {<<3, l, "Apple Inc.">>, <<7, l, "Apple Inc.">>}
                    [] lines[l] = "DoubleVerify Holdings, Inc. (NYSE: DV) measures media."
                         -> {<<1, l, "DoubleVerify Holdings, Inc.">>}
                    [] lines[l] = "Issuer: The Blue Bird Corporation, of Georgia."
                         -> {<<2, l, "Blue Bird Corporation">>,
                             <<6, l, "The Blue Bird Corporation">>}
                    [] OTHER -> {}],
             stock_symbol |->
               [l \in 1..Len(lines) |->
                  CASE lines[l] = "Blue Bird Corporation (NASDAQ Global Market: BLBD) builds school buses."
                         -> {<<3, l, "BLBD">>}
                    [] lines[l] = "Apple Inc. (NASDAQ: AAPL) is a customer."
                         -> {<<5, l, "AAPL">>}
                    [] lines[l] = "DoubleVerify Holdings, Inc. (NYSE: DV) measures media."
                         -> {<<1, l, "DV">>}
                    [] lines[l] = "Ticker symbol: MSFT"
                         -> {<<8, l, "MSFT">>}
                    [] OTHER -> {}]]
        all == UNION { found[info_type][l] : l \in 1..Len(lines) }
        Before(a, b) == a[1] < b[1] \/ (a[1] = b[1] /\ a[2] < b[2])
        Ordered[n \in 0..Cardinality(all)] ==
            IF n = 0 THEN <<>>
            ELSE Append(Ordered[n - 1],
                        CHOOSE m \in all :
                            Cardinality({ o \in all : Before(o, m) }) = n - 1)
    IN  Ordered[Cardinality(all)]

\* extract_data on one document: returned_data is what the loop over
\* company_patterns appends for company_name and stock_symbol
ExtractData ==
    \E document_name \in {"bluebird_10k.pdf", "report.pdf", "advisory.pdf",
                           "aapl_q3.pdf"} :
    LET sentences ==
            {"Blue Bird Corporation (NASDAQ Global Market: BLBD) builds school buses.",
             "Apple Inc. (NASDAQ: AAPL) is a customer.",
             "DoubleVerify Holdings, Inc. (NYSE: DV) measures media.",
             "Ticker symbol: MSFT",
             "See Item 1A for risk factors.",
             "Issuer: The Blue Bird Corporation, of Georgia."}
        texts == UNION { { ls \in [1..n -> sentences] :
                              \A i, j \in 1..n : i # j => ls[i] # ls[j] }
                         : n \in 1..MaxLines }
    IN  \E lines \in texts :
        LET Joined[n \in 1..Len(lines)] ==
                IF n = 1 THEN lines[1] ELSE Joined[n - 1] \o "\n" \o lines[n]
            text == Joined[Len(lines)]
            flags == ClassifiedAs(text, document_name)
            \* re.sub(r'^(The\s+|A\s+)', '', raw_value, flags=re.IGNORECASE)
            \* and strip()
            WithoutArticle(raw) ==
                LET lower == Lower(raw)
                    article ==
                        IF Len(lower) >= 4 /\ SubSeq(lower, 1, 3) = "the"
                               /\ Char(lower, 4) \in Whitespace THEN 3
                        ELSE IF Len(lower) >= 2 /\ Char(lower, 1) = "a"
                               /\ Char(lower, 2) \in Whitespace THEN 1
                        ELSE 0
                IN  Strip(SubSeq(raw, article + 1, Len(raw)))
            \* the value appended for a match, or None when a 'continue'
            \* drops it
            Filtered(info_type, raw) ==
                IF Len(raw) < 3 THEN None
                ELSE IF info_type = "company_name"
                THEN IF \/ Len(raw) < 5
                        \/ Cardinality({ i \in 1..Len(raw) : Char(raw, i) = " " }) > 10
                     THEN None
                     ELSE LET raw_value == WithoutArticle(raw)
                          IN  IF \E e \in flags :
                                    ~Contains(Lower(raw_value),
                                              KnownEntities[e].fragment)
                              THEN None
                              ELSE IF Len(raw_value) >= 3
                                   THEN Some(raw_value) ELSE None
                ELSE LET raw_value == Upper(raw)
                     IN  IF ~(/\ Len(raw_value) \in 2..5
                              /\ \A i \in 1..Len(raw_value) :
                                     IsUpper(Char(raw_value, i)))
                         THEN None
                         ELSE IF \E e \in flags :
                                    raw_value # KnownEntities[e].ticker
                              THEN None
                              ELSE Some(raw_value)
            Appended(info_type) ==
                LET matches == CompanyMatches(lines, info_type)
                    kept == SelectSeq(
                              [ i \in 1..Len(matches) |->
                                  Filtered(info_type, matches[i][3]) ],
                              LAMBDA v : v # None)
                IN  [ i \in 1..Len(kept) |->
                        ExtractedData(info_type, kept[i].str, 80,
                                      document_name, 0) ]
        IN  /\ document = <<>>
            /\ document' = [text |-> text, document_name |-> document_name,
                            lines |-> lines]
            /\ returned_data' =
                   Appended("company_name") \o Appended("stock_symbol")
            /\ UNCHANGED <<normVars, consVars, confVars, mergeVars, runVars>>

SpecLegacyExtract == NormInit /\ [][ExtractData]_vars

\* C29: when the document is classified as a known entity, every
\* company_name match that holds that entity's name fragment and every
\* stock_symbol match equal to that entity's ticker is among the returned
\* candidates, whatever else the text mentions.
C29_CorroboratingCandidateKept ==
    document # <<>> =>
        \A e \in ClassifiedAs(document.text, document.document_name) :
            LET names == CompanyMatches(document.lines, "company_name")
                symbols == CompanyMatches(document.lines, "stock_symbol")
                Returned(field_name, v) ==
                    \E i \in 1..Len(returned_data) :
                        /\ returned_data[i].field_name = field_name
                        /\ Contains(Lower(returned_data[i].value), Lower(v))
            IN  /\ \A i \in 1..Len(names) :
                       Contains(Lower(names[i][3]), KnownEntities[e].fragment)
                           => Returned("company_name", KnownEntities[e].fragment)
                /\ \A i \in 1..Len(symbols) :
                       symbols[i][3] = KnownEntities[e].ticker
                           => Returned("stock_symbol", KnownEntities[e].ticker)

(***************************************************************************)
(* ultra_targeted_extraction.py: UltraTargetedPatternMatcher and the       *)
(* consolidation of UltraTargetedFinancialExtractor.  A text is made of    *)
(* lines taken from a fixed set of sentences, and the matches of the rules *)
(* in each sentence are given.  A confidence is kept in hundredths: the    *)
(* doubles 0.95 - idx * 0.05 of the entity-specific rules are in the same  *)
(* order as their hundredths, and so are the doubles 0.9 - idx * 0.1 of    *)
(* the general rules; consolidation never compares one kind with the       *)
(* other.                                                                  *)
(***************************************************************************)
MaxUltraLines == 2

\* _detect_company_context: the dict, as its items in order
UltraCompanyContext(text, document_name) ==
    LET doc_lower == Lower(document_name)
        text_lower == Lower(text)
    IN  << <<"DoubleVerify",
             AnyIn(<<"doubleverify", "dv">>, doc_lower)
                 \/ AnyIn(<<"doubleverify", "digital advertising">>, text_lower)>>,
           <<"BlueBird",
             AnyIn(<<"bluebird", "blbd">>, doc_lower)
                 \/ AnyIn(<<"blue bird", "school bus">>, text_lower)>>,
           <<"Apple",
             AnyIn(<<"apple", "aapl">>, doc_lower)
                 \/ AnyIn(<<"apple inc", "cupertino">>, text_lower)>>,
           <<"Microsoft",
             AnyIn(<<"microsoft", "msft">>, doc_lower)
                 \/ AnyIn(<<"microsoft corporation", "redmond">>, text_lower)>> >>

\* extract_with_ultra_targeted_patterns.  found gives the matches of a
\* sentence as <<group, field place, field_type, pattern_idx, raw_value>>:
\* group 1 and 2 are the rules of DoubleVerify and BlueBird, group 3 the
\* general rules; the field place is the place of the field in the dict
\* of its group.  The loops visit group, field, rule, then position.
extract_with_ultra_targeted_patterns(lines, document_name) ==
    LET Joined[n \in 1..Len(lines)] ==
            IF n = 1 THEN lines[1] ELSE Joined[n - 1] \o "\n" \o lines[n]
        company_context == UltraCompanyContext(Joined[Len(lines)], document_name)
        margin(idx, raw) ==
            {<<1, 3, "net_margin", idx, raw>>, <<2, 3, "net_margin", idx, raw>>,
             <<3, 1, "net_margin", idx, raw>>}
        found(line) ==
            CASE line = "Net margin of 15%."
                   -> margin(0, "15") \cup {<<3, 1, "net_margin", 3, "15">>}
              [] line = "Net margin of 12 percent." -> margin(2, "12")
              [] line = "Net margin of 1.2.3%"
                   -> margin(0, "1.2.3") \cup {<<3, 1, "net_margin", 3, "1.2.3">>}
              [] line = "Operating margin was 20%."
                   -> {<<3, 2, "operating_margin", 0, "20">>}
              [] line = "Ticker: DV" -> {<<1, 2, "stock_symbol", 0, "DV">>}
              [] OTHER -> {}
        all == UNION { { <<m, l>> : m \in found(lines[l]) } : l \in 1..Len(lines) }
        Before(a, b) ==
            \E k \in 1..4 :
                /\ \A j \in 1..(k - 1) : a[j] = b[j]
                /\ a[k] < b[k]
        Key(x) == <<x[1][1], x[1][2], x[1][4], x[2]>>
        Ordered[n \in 0..Cardinality(all)] ==
            IF n = 0 THEN <<>>
            ELSE Append(Ordered[n - 1],
                        CHOOSE x \in all :
                            Cardinality({ o \in all : Before(Key(o), Key(x)) })
                                = n - 1)
        \* float(value.replace('%', '')) does not raise
        IsFloat(v) ==
            /\ \A i \in 1..Len(v) : IsDigit(Char(v, i)) \/ Char(v, i) = "."
            /\ Cardinality({ i \in 1..Len(v) : Char(v, i) = "." }) <= 1
            /\ HasNumber(v)
        \* _ultra_validate_field, for the fields of the sentences
        Valid(field_type, v, company) ==
            /\ Len(v) >= 2
            /\ (company = "DoubleVerify" /\ field_type = "stock_symbol")
                   => Upper(v) = "DV"
            /\ field_type \in {"net_margin", "operating_margin"} => IsFloat(v)
        \* _ultra_clean_field, and the f"{raw_value}%" of the general rules
        Percent(field_type, v) ==
            IF field_type \in {"net_margin", "operating_margin"}
                   /\ ~EndsWith(v, "%")
            THEN v \o "%" ELSE v
        Candidate(x) ==
            LET m == x[1]
                company == company_context[m[1]][1]
            IN  IF m[1] = 3
                THEN <<[field_name |-> m[3], value |-> Percent(m[3], m[5]),
                        confidence |-> 90 - m[4] * 10,
                        source_document |-> document_name,
                        extraction_method |->
                            "enhanced_general_" \o ToString(m[4])]>>
                ELSE IF company_context[m[1]][2] /\ Valid(m[3], m[5], company)
                THEN <<[field_name |-> m[3], value |-> Percent(m[3], m[5]),
                        confidence |-> 95 - m[4] * 5,
                        source_document |-> document_name,
                        extraction_method |->
                            "ultra_targeted_" \o company \o "_"
                                \o ToString(m[4])]>>
                ELSE <<>>
        matches == Ordered[Cardinality(all)]
    IN  Flatten([ i \in 1..Len(matches) |-> Candidate(matches[i]) ])

\* A consolidation that takes the most confident candidate of a field,
\* whatever rule produced it.
ConsolidateByConfidence(extracted_data) ==
    LET fields == { extracted_data[i].field_name : i \in 1..Len(extracted_data) }
        items(f) == SortByConfidence(
                        SelectSeq(extracted_data, LAMBDA x : x.field_name = f))
    IN  [ f \in fields |-> items(f)[1].value ]

\* UltraTargetedFinancialExtractor.consolidate_data
UltraConsolidateData(extracted_data) ==
    LET fields == { extracted_data[i].field_name : i \in 1..Len(extracted_data) }
        items(f) == SortByConfidence(
                        SelectSeq(extracted_data, LAMBDA x : x.field_name = f))
        ultra_targeted_items(f) ==
            SelectSeq(items(f),
                      LAMBDA x : Contains(x.extraction_method, "ultra_targeted"))
    IN  [ f \in fields |->
            IF ultra_targeted_items(f) # <<>>
            THEN ultra_targeted_items(f)[1].value
            ELSE items(f)[1].value ]

\* extract_data on one or two documents, then consolidate_data on all the
\* candidates; attempts keeps each document with its company context
UltraExtractAndConsolidate ==
    LET sentences == {"Net margin of 15%.", "Net margin of 12 percent.",
                      "Net margin of 1.2.3%", "Operating margin was 20%.",
                      "Ticker: DV", "Blue Bird builds buses."}
        names == {"dv_10k.pdf", "bluebird_10k.pdf", "report.pdf"}
        texts == UNION { { ls \in [1..n -> sentences] :
                              \A i, j \in 1..n : i # j => ls[i] # ls[j] }
                         : n \in 1..MaxUltraLines }
    IN  \E n \in 1..MaxDocuments :
        \E files \in [1..n -> names], contents \in [1..n -> texts] :
            /\ consPc = "idle"
            /\ \A i, j \in 1..n : i # j => files[i] # files[j]
            /\ attempts' =
                   [ k \in 1..n |->
                       LET Joined[i \in 1..Len(contents[k])] ==
                               IF i = 1 THEN contents[k][1]
                               ELSE Joined[i - 1] \o "\n" \o contents[k][i]
                       IN  [file |-> files[k], lines |-> contents[k],
                            company_context |->
                                UltraCompanyContext(Joined[Len(contents[k])],
                                                    files[k]),
                            extracted_data |->
                                extract_with_ultra_targeted_patterns(
                                    contents[k], files[k])] ]
            /\ all_extracted_data' =
                   Flatten([ k \in 1..n |-> attempts'[k].extracted_data ])
            /\ consolidated' = UltraConsolidateData(all_extracted_data')
            /\ consPc' = "ultra"
            /\ UNCHANGED <<processed_files, processing_stats, results>>
            /\ UNCHANGED <<normVars, confVars, mergeVars, extractVars, runVars>>

SpecUltra == NormInit /\ [][UltraExtractAndConsolidate]_vars

\* the candidates of a field that an entity-specific rule produced
EntitySpecific(f) ==
    { i \in 1..Len(all_extracted_data) :
        /\ all_extracted_data[i].field_name = f
        /\ Contains(all_extracted_data[i].extraction_method, "ultra_targeted") }

\* C21: for a field with a candidate of an entity-specific rule, the
\* consolidated value is that of the first entity-specific candidate of
\* the highest confidence among the entity-specific ones, whatever the
\* confidence of the general candidates; and a candidate of the rules of
\* an entity comes from a document whose context has that entity set.
C21_EntitySpecificTakesPrecedence ==
    consPc = "ultra" =>
        /\ \A f \in DOMAIN consolidated :
               EntitySpecific(f) # {} =>
                   \E i \in EntitySpecific(f) :
                       /\ consolidated[f] = all_extracted_data[i].value
                       /\ \A j \in EntitySpecific(f) :
                              \/ all_extracted_data[j].confidence
                                     < all_extracted_data[i].confidence
                              \/ /\ all_extracted_data[j].confidence
                                        = all_extracted_data[i].confidence
                                 /\ i <= j
        /\ \A i \in 1..Len(all_extracted_data) :
               \A e \in {"DoubleVerify", "BlueBird", "Apple", "Microsoft"} :
                   Contains(all_extracted_data[i].extraction_method,
                            "ultra_targeted_" \o e \o "_")
                       => \E k \in 1..Len(attempts) :
                              /\ attempts[k].file
                                     = all_extracted_data[i].source_document
                              /\ \E c \in 1..Len(attempts[k].company_context) :
                                     attempts[k].company_context[c] = <<e, TRUE>>

\* net_margin has a general candidate at 0.9 from an unclassified document
\* and an entity-specific one at 0.85; the entity-specific value is taken
C21_Witness ==
    /\ consPc = "ultra"
    /\ "net_margin" \in DOMAIN consolidated
    /\ consolidated["net_margin"] = "12%"
    /\ \E i \in EntitySpecific("net_margin") :
           all_extracted_data[i].confidence = 85
    /\ \A i \in EntitySpecific("net_margin") :
           all_extracted_data[i].confidence <= 85
    /\ \E j \in 1..Len(all_extracted_data) :
           /\ all_extracted_data[j].field_name = "net_margin"
           /\ all_extracted_data[j].extraction_method = "enhanced_general_0"
           /\ all_extracted_data[j].confidence = 90
           /\ all_extracted_data[j].value = "15%"
====
